---------------------------- MODULE Spec2Model ----------------------------
(***************************************************************************)
(* A model of backend/main.py: the in-memory input-file registry (six      *)
(* parallel per-file maps), its upload / edit / delete / download / plot   *)
(* handlers, the column range helpers, and the dataset registry with its   *)
(* edit and export handlers.                                               *)
(*                                                                         *)
(* Text (column labels, series names, metadata text) is a sequence of      *)
(* one-character strings, so that strip() and the time-column pattern are  *)
(* computed character by character.  A cell of a table is a record:        *)
(* [num |-> n] a number, [str |-> s] text, [nan |-> TRUE] a missing value. *)
(***************************************************************************)
EXTENDS Integers, Sequences, FiniteSets, TLC

(***************************************************************************)
(* Bounds of the model.                                                    *)
(***************************************************************************)
MaxMutations == 2     \* uploads, edit requests and deletes during a run
MaxSliceLen == 3      \* longest column list given to _slice_columns
MaxMergeLen == 3      \* longest column list given to _merge_columns
MaxInferColumns == 2  \* most columns of a table given to _infer_date_column
MaxInferRows == 2     \* most rows of a table given to _infer_date_column
MaxTransformRows == 3 \* most rows of a table given to _apply_transform
MaxLookupFiles == 2   \* longest list of file ids given to _get_series_metadata

(***************************************************************************)
(* Text.                                                                   *)
(***************************************************************************)
Digits == {"0", "1", "2", "3", "4", "5", "6", "7", "8", "9"}
Whitespace == {" ", "\t", "\n"}

Mnemonic == <<"M", "n", "e", "m", "o", "n", "i", "c">>
Quarterly == <<"Q", "u", "a", "r", "t", "e", "r", "l", "y">>
Scenario == <<"S", "c", "e", "n", "a", "r", "i", "o">>

L1 == <<"2", "0", "2", "2", ".", "1">>
L2 == <<"2", "0", "2", "2", ".", "2">>
L3 == <<"2", "0", "2", "3", ".", "1">>
Region == <<"R", "e", "g", "i", "o", "n">>
S1 == <<"s", "1">>
S2 == <<"s", "2">>
S3 == <<"s", "3">>
OtherSheet == <<"O", "t", "h", "e", "r">>

\* Python's absent value (None) and the empty string, both falsy.
None == <<"<None>">>
Empty == <<>>

Num(n) == [num |-> n]
Str(s) == [str |-> s]
NaN == [nan |-> TRUE]

\* pd.isna(value)
isna(v) == v = NaN

RECURSIVE lstrip(_)
lstrip(s) == IF s # <<>> /\ Head(s) \in Whitespace THEN lstrip(Tail(s)) ELSE s

RECURSIVE rstrip(_)
rstrip(s) ==
    IF s # <<>> /\ s[Len(s)] \in Whitespace
    THEN rstrip(SubSeq(s, 1, Len(s) - 1))
    ELSE s

\* str.strip()
strip(s) == rstrip(lstrip(s))

\* TIME_COLUMN_PATTERN = ^\d{4}\.\d+$ matched against a stripped label
TIME_COLUMN_PATTERN(s) ==
    /\ Len(s) >= 6
    /\ \A i \in 1..4 : s[i] \in Digits
    /\ s[5] = "."
    /\ \A i \in 6..Len(s) : s[i] \in Digits

DEFAULT_SHEET == Quarterly

(***************************************************************************)
(* Sequence helpers.                                                       *)
(***************************************************************************)
Range(s) == {s[i] : i \in 1..Len(s)}

\* item in list
In(x, s) == \E i \in 1..Len(s) : s[i] = x

\* list.index(x), 1-based, of an element that is in the list
IndexOf(x, s) == CHOOSE i \in 1..Len(s) : s[i] = x /\ \A j \in 1..(i - 1) : s[j] # x

\* {}: the dict with no key
EmptyDict == [k \in {} |-> TRUE]

\* Mutant: pop that removes nothing
Pop_KeepsKey(d, key) == d

\* dict.pop(key, None) and dict[key] = value
Pop(d, key) == [k \in DOMAIN d \ {key} |-> d[k]]
Put(d, key, value) == [k \in DOMAIN d \cup {key} |-> IF k = key THEN value ELSE d[k]]

\* Characters in code-point order, for sorted()
Alphabet ==
    <<"\t", "\n", " ", "-", ".", "0", "1", "2", "3", "4", "5", "6", "7", "8", "9", "<", ">",
      "M", "N", "O", "Q", "R", "S", "a", "c", "e", "g", "h", "i", "l", "m", "n", "o", "r",
      "s", "t", "u", "y">>
Ord(c) == IndexOf(c, Alphabet)

\* a < b for two texts, as Python compares strings
RECURSIVE TextLess(_, _)
TextLess(a, b) ==
    IF b = <<>> THEN FALSE
    ELSE IF a = <<>> THEN TRUE
    ELSE IF Head(a) # Head(b) THEN Ord(Head(a)) < Ord(Head(b))
    ELSE TextLess(Tail(a), Tail(b))

\* sorted(S) for a set of texts
RECURSIVE sorted(_)
sorted(S) ==
    IF S = {} THEN <<>>
    ELSE LET least == CHOOSE x \in S : \A y \in S \ {x} : TextLess(x, y)
         IN  <<least>> \o sorted(S \ {least})

\* s without its p-th element
RemoveAt(s, p) == SubSeq(s, 1, p - 1) \o SubSeq(s, p + 1, Len(s))

(***************************************************************************)
(* Tables.  A decoded file is a frame [columns, values]: the column labels *)
(* and the rows, each row a sequence of cells aligned with the columns.    *)
(* An indexed table [index, columns, values] is a frame after              *)
(* set_index: index[r] is the label of row r.                              *)
(***************************************************************************)
Frame(columns, values) == [columns |-> columns, values |-> values]

\* df.empty: some axis has length zero
empty(df) == Len(df.columns) = 0 \/ Len(df.values) = 0

\* The positions of the columns a list of labels selects: for each label in turn,
\* every column carrying it (pandas takes all of them when a label is repeated)
RECURSIVE Positions(_, _)
Positions(columns, labels) ==
    IF labels = <<>> THEN <<>>
    ELSE LET Carries(k) == columns[k] = Head(labels)
         IN  SelectSeq([k \in 1..Len(columns) |-> k], Carries)
                \o Positions(columns, Tail(labels))

\* df[labels] on an indexed table: the named columns, in the order asked
SelectColumns(t, labels) ==
    LET at == Positions(t.columns, labels)
    IN  [index |-> t.index,
         columns |-> [k \in 1..Len(at) |-> t.columns[at[k]]],
         values |-> [r \in 1..Len(t.values) |->
                        [k \in 1..Len(at) |-> t.values[r][at[k]]]]]

\* normalized.set_index("Mnemonic"), for a label that one column carries
set_index(df, label) ==
    LET p == IndexOf(label, df.columns)
    IN  [index |-> [r \in 1..Len(df.values) |-> df.values[r][p]],
         columns |-> RemoveAt(df.columns, p),
         values |-> [r \in 1..Len(df.values) |-> RemoveAt(df.values[r], p)]]

\* df.reset_index(): the index restored as the leading Mnemonic column
reset_index(t) ==
    Frame(<<Mnemonic>> \o t.columns,
          [r \in 1..Len(t.values) |-> <<t.index[r]>> \o t.values[r]])

HTTPException(code, detail) == [status |-> code, detail |-> detail]

IsMnemonic(column) == column = Mnemonic

\* _parse_input_dataframe: the error raised, or (parsed, time_columns, metadata_df).
\* When two columns are named Mnemonic after the trimming, normalized["Mnemonic"]
\* is a table of two columns and set_index raises ValueError (Index data must be
\* 1-dimensional), which is no HTTPException.
_parse_input_dataframe(df) ==
    IF empty(df)
    THEN HTTPException(400, "Input file must include at least one row")
    ELSE
    LET normalized == Frame([i \in 1..Len(df.columns) |-> strip(df.columns[i])], df.values)
        IsTime(column) == column # Mnemonic /\ TIME_COLUMN_PATTERN(column)
        time_columns == SelectSeq(normalized.columns, IsTime)
        IsMeta(column) == ~In(column, time_columns) /\ column # Mnemonic
        metadata_columns == SelectSeq(normalized.columns, IsMeta)
        parsed == set_index(normalized, Mnemonic)
    IN  IF ~In(Mnemonic, normalized.columns)
        THEN HTTPException(400, "Input file must include a Mnemonic column")
        ELSE IF time_columns = <<>>
        THEN HTTPException(400, "Input file must include timestamp columns like 2022.1")
        ELSE IF Len(SelectSeq(normalized.columns, IsMnemonic)) > 1
        THEN [status |-> 500, detail |-> "ValueError"]
        ELSE [status |-> 200,
              parsed |-> parsed,
              time_columns |-> time_columns,
              metadata_df |-> SelectColumns(parsed, metadata_columns)]

\* _parse_excel_sheets: {} or {Quarterly: parsed}; a workbook maps sheet names to frames.
\* (No workbook and no directory file of the model names two columns Mnemonic, so
\* the ValueError, which "except HTTPException" would not catch, does not arise
\* here or in LoadFrom.)
_parse_excel_sheets(sheets) ==
    IF DEFAULT_SHEET \notin DOMAIN sheets
    THEN EmptyDict
    ELSE LET p == _parse_input_dataframe(sheets[DEFAULT_SHEET])
         IN  IF p.status # 200 THEN EmptyDict ELSE (DEFAULT_SHEET :> p)

(***************************************************************************)
(* The inputs of the model: file names, decoded contents, requests.        *)
(***************************************************************************)
\* A file name is its stem (the parts joined by "-") and its suffix.
FileName(stem, suffix) == [stem |-> stem, suffix |-> suffix]
A_CSV == FileName(<<"a">>, ".csv")
B_XLSX == FileName(<<"b">>, ".xlsx")
A_U1_CSV == FileName(<<"a", "u1">>, ".csv")
C_CSV == FileName(<<"c">>, ".csv")
NoFileName == FileName(<<>>, "")
UPLOADED_CSV == FileName(<<"uploaded">>, ".csv")

\* The values uuid.uuid4().hex[:8] may take.
UUIDs == {"u1", "u2"}

EU == <<"E", "U">>
Blank == <<" ">>

CsvGood ==
    Frame(<<Mnemonic, L1, L2, Region>>,
          << <<Str(S1), Num(1), NaN, Str(EU)>>,
             <<Str(S2), Num(2), Num(3), NaN>> >>)
CsvDup ==
    Frame(<<<<" ">> \o Mnemonic \o <<" ">>, L2, L3>>,
          << <<Str(S1), Num(4), NaN>>,
             <<Str(S1), Num(5), Num(6)>> >>)
CsvNoMnemonic == Frame(<<Region, L1>>, << <<Str(EU), Num(1)>> >>)
CsvNoTime == Frame(<<Mnemonic, Region>>, << <<Str(S1), Str(EU)>> >>)
CsvNoRows == Frame(<<Mnemonic, L1>>, <<>>)
XlsxGoodSheet ==
    Frame(<<Mnemonic, Scenario, L1>>,
          << <<Str(S2), Str(Blank), Num(7)>>,
             <<Str(S3), Str(EU), NaN>> >>)

\* Two rows named s1: the first has a missing Scenario and a padded Region.
Base == <<"B", "a", "s", "e">>
PaddedEU == <<" ", "E", "U", " ">>
CsvMeta ==
    Frame(<<Mnemonic, L1, Scenario, Region>>,
          << <<Str(S1), Num(1), NaN, Str(PaddedEU)>>,
             <<Str(S1), Num(2), Str(Base), Str(EU)>>,
             <<Str(S2), Num(3), Str(Blank), NaN>>,
             <<Str(S3), Num(4), Str(Base), Str(EU)>> >>)

\* Name lists: a padded column label and a padded name; only blank and missing names.
PaddedMnemonic == <<" ">> \o Mnemonic
PaddedS3 == <<" ", "s", "3", " ">>
NamesSheet == Frame(<<PaddedMnemonic>>, << <<Str(PaddedS3)>>, <<Str(S3)>> >>)
BlankNamesSheet == Frame(<<Mnemonic, L1>>, << <<Str(Blank), Num(1)>>, <<NaN, Num(2)>> >>)

\* A dataset: a date column of ISO dates and a column of numbers.
Date == <<"d", "a", "t", "e">>
Value == <<"v", "a", "l", "u", "e">>
D1 == <<"2", "0", "2", "4", "-", "0", "1", "-", "0", "5">>
D2 == <<"2", "0", "2", "4", "-", "0", "2", "-", "1", "0">>
D3 == <<"2", "0", "2", "4", "-", "0", "3", "-", "0", "1">>
NotADate == <<"n", "/", "a">>
CsvDated ==
    Frame(<<Date, Value>>,
          << <<Str(D1), Num(1)>>,
             <<Str(D2), Num(2)>> >>)

\* The uploaded byte contents, by what pandas decodes them to.
Contents ==
    {"csvGood", "csvDup", "csvNoMnemonic", "csvNoTime", "csvNoRows", "csvDated", "csvMeta",
     "xlsxGood", "xlsxNoQuarterly", "xlsxBadQuarterly", "xlsxNames", "xlsxBlankNames",
     "garbage"}

Raised == [raised |-> TRUE]
Returned(value) == [raised |-> FALSE, value |-> value]

\* pd.read_csv(io.BytesIO(content)): the frame it returns, unless it raises
read_csv(content) ==
    CASE content = "csvGood" -> Returned(CsvGood)
      [] content = "csvDup" -> Returned(CsvDup)
      [] content = "csvNoMnemonic" -> Returned(CsvNoMnemonic)
      [] content = "csvNoTime" -> Returned(CsvNoTime)
      [] content = "csvNoRows" -> Returned(CsvNoRows)
      [] content = "csvDated" -> Returned(CsvDated)
      [] content = "csvMeta" -> Returned(CsvMeta)
      [] OTHER -> Raised

\* pd.read_excel(io.BytesIO(content), sheet_name=None): sheet name -> frame, unless it raises
read_excel(content) ==
    CASE content = "xlsxGood" ->
            Returned((Quarterly :> XlsxGoodSheet) @@ (OtherSheet :> CsvGood))
      [] content = "xlsxNoQuarterly" -> Returned((OtherSheet :> CsvGood))
      [] content = "xlsxBadQuarterly" -> Returned((Quarterly :> CsvNoMnemonic))
      [] content = "xlsxNames" -> Returned((OtherSheet :> NamesSheet))
      [] content = "xlsxBlankNames" -> Returned((OtherSheet :> BlankNamesSheet))
      [] OTHER -> Raised

\* pd.read_excel(io.BytesIO(content)): the frame of the workbook's first sheet
read_excel_sheet0(content) ==
    CASE content = "xlsxGood" -> Returned(XlsxGoodSheet)
      [] content = "xlsxNoQuarterly" -> Returned(CsvGood)
      [] content = "xlsxBadQuarterly" -> Returned(CsvNoMnemonic)
      [] OTHER -> Raised

UploadFile(filename, content) == [filename |-> filename, content |-> content]

\* The upload requests clients send: the files of each, in order.
UploadRequests ==
    {<<UploadFile(A_CSV, "csvDup")>>,
     <<UploadFile(B_XLSX, "xlsxGood"), UploadFile(A_CSV, "csvNoMnemonic")>>,
     <<UploadFile(A_CSV, "csvGood"), UploadFile(B_XLSX, "xlsxNoQuarterly")>>,
     <<UploadFile(NoFileName, "garbage")>>}

\* The sorted listings of TEST_DATA_DIR at start, each file with its content.
TestDataDirs ==
    {<<>>,
     <<UploadFile(A_CSV, "csvGood"), UploadFile(B_XLSX, "xlsxGood"),
       UploadFile(C_CSV, "csvNoTime")>>}

(***************************************************************************)
(* The state.                                                              *)
(***************************************************************************)
VARIABLES
    INPUT_FILES,          \* file id -> sheet name -> indexed table
    INPUT_FILE_COLUMNS,   \* file id -> sheet name -> time columns
    INPUT_FILE_SERIES,    \* file id -> sheet name -> series names
    INPUT_FILE_FORMAT,    \* file id -> "csv" | "xlsx"
    INPUT_FILE_METADATA,  \* file id -> sheet name -> metadata table
    INPUT_FILE_SHEETS,    \* file id -> sorted sheet names
    started,              \* the module's top-level code has run (_load_input_files)
    uploads,              \* the upload requests in flight: slot -> frame of upload_input_file
    response,             \* the response of the last request that ended
    nMutations,           \* uploads, successful input-file edits and deletes, and
                          \* dataset edit requests so far
    call,                 \* a call of a pure helper: its arguments, then its result
    DATASETS,             \* dataset id -> Dataset
    editing,              \* the apply_edits request in flight: its frame
    NAME_LIST,            \* None, or the names of the last name list uploaded
    plotting,             \* the plot_series request in flight: its frame
    deleting              \* the delete_input_file request in flight: its frame

registry ==
    <<INPUT_FILES, INPUT_FILE_COLUMNS, INPUT_FILE_SERIES, INPUT_FILE_FORMAT,
      INPUT_FILE_METADATA, INPUT_FILE_SHEETS>>

\* The six maps as one record, for the operators that compute their next value.
Maps ==
    [files |-> INPUT_FILES, columns |-> INPUT_FILE_COLUMNS, series |-> INPUT_FILE_SERIES,
     format |-> INPUT_FILE_FORMAT, metadata |-> INPUT_FILE_METADATA,
     sheets |-> INPUT_FILE_SHEETS]

NoMaps ==
    [files |-> EmptyDict, columns |-> EmptyDict, series |-> EmptyDict,
     format |-> EmptyDict, metadata |-> EmptyDict, sheets |-> EmptyDict]

SetMaps(m) ==
    /\ INPUT_FILES' = m.files
    /\ INPUT_FILE_COLUMNS' = m.columns
    /\ INPUT_FILE_SERIES' = m.series
    /\ INPUT_FILE_FORMAT' = m.format
    /\ INPUT_FILE_METADATA' = m.metadata
    /\ INPUT_FILE_SHEETS' = m.sheets

RECURSIVE ToDigits(_)
ToDigits(n) ==
    IF n < 10 THEN <<Alphabet[n + 6]>>
    ELSE ToDigits(n \div 10) \o <<Alphabet[(n % 10) + 6]>>

\* str(value) of an index cell (index.astype(str))
astype_str(cell) ==
    IF "str" \in DOMAIN cell THEN cell.str
    ELSE IF "num" \in DOMAIN cell THEN ToDigits(cell.num)
    ELSE <<"n", "a", "n">>

\* _register_input_file: the six maps after registering file_id
_register_input_file(m, file_id, parsed_sheets, file_format) ==
    [files |-> Put(m.files, file_id,
                   [sh \in DOMAIN parsed_sheets |-> parsed_sheets[sh].parsed]),
     columns |-> Put(m.columns, file_id,
                     [sh \in DOMAIN parsed_sheets |-> parsed_sheets[sh].time_columns]),
     series |-> Put(m.series, file_id,
                    [sh \in DOMAIN parsed_sheets |->
                        LET index == parsed_sheets[sh].parsed.index
                        IN  [r \in 1..Len(index) |-> astype_str(index[r])]]),
     metadata |-> Put(m.metadata, file_id,
                      [sh \in DOMAIN parsed_sheets |-> parsed_sheets[sh].metadata_df]),
     format |-> Put(m.format, file_id, file_format),
     sheets |-> Put(m.sheets, file_id, sorted(DOMAIN parsed_sheets))]

\* One turn of the loop of _load_input_files over the sorted directory listing.
RECURSIVE LoadFrom(_, _)
LoadFrom(m, paths) ==
    IF paths = <<>> THEN m
    ELSE
    LET path == Head(paths)
        rest == Tail(paths)
    IN  IF path.filename.suffix = ".xlsx"
        THEN LET sheets == read_excel(path.content)
                 parsed_sheets == IF sheets.raised THEN EmptyDict
                                  ELSE _parse_excel_sheets(sheets.value)
             IN  IF DOMAIN parsed_sheets = {}
                 THEN LoadFrom(m, rest)
                 ELSE LoadFrom(_register_input_file(m, path.filename, parsed_sheets, "xlsx"),
                               rest)
        ELSE LET p == _parse_input_dataframe(read_csv(path.content).value)
             IN  IF p.status # 200
                 THEN LoadFrom(m, rest)
                 ELSE LoadFrom(_register_input_file(m, path.filename,
                                                    (DEFAULT_SHEET :> p), "csv"),
                               rest)

Idle == [pc |-> "idle"]
Slots == 1..2

vars ==
    <<INPUT_FILES, INPUT_FILE_COLUMNS, INPUT_FILE_SERIES, INPUT_FILE_FORMAT,
      INPUT_FILE_METADATA, INPUT_FILE_SHEETS, started, uploads, response, nMutations,
      call, DATASETS, editing, NAME_LIST, plotting, deleting>>

datasets == <<DATASETS, editing>>

threads == <<plotting, deleting>>

SetMapsInit ==
    /\ INPUT_FILES = EmptyDict
    /\ INPUT_FILE_COLUMNS = EmptyDict
    /\ INPUT_FILE_SERIES = EmptyDict
    /\ INPUT_FILE_FORMAT = EmptyDict
    /\ INPUT_FILE_METADATA = EmptyDict
    /\ INPUT_FILE_SHEETS = EmptyDict

\* The module's globals as lines 35-43 create them, before line 558 runs.
Init ==
    /\ SetMapsInit
    /\ started = FALSE
    /\ uploads = [r \in Slots |-> Idle]
    /\ response = [op |-> "none"]
    /\ nMutations = 0
    /\ call = [fn |-> "none"]
    /\ DATASETS = EmptyDict
    /\ editing = Idle
    /\ NAME_LIST = None
    /\ plotting = Idle
    /\ deleting = Idle

\* _load_input_files(), called once at import: clears the maps, registers the directory.
\* pd.read_csv of a directory file is not guarded; the listings hold decodable CSV only.
\* (NAME_LIST is not modelled.)
LoadDir(dirs) ==
    /\ ~started
    /\ \E dir \in dirs : SetMaps(LoadFrom(NoMaps, dir))
    /\ started' = TRUE
    /\ NAME_LIST' = None
    /\ UNCHANGED threads
    /\ UNCHANGED <<uploads, response, nMutations, call, datasets>>

InputFileMetadata(m, file_id) ==
    [id |-> file_id,
     name |-> file_id,
     sheets |-> m.sheets[file_id],
     series_by_sheet |-> m.series[file_id],
     columns_by_sheet |-> m.columns[file_id]]

\* f"{Path(filename).stem}-{uuid.uuid4().hex[:8]}{Path(filename).suffix}"
SuffixedId(filename, uuid) == FileName(Append(filename.stem, uuid), filename.suffix)

\* Mutant: no suffix for a name that is taken
UploadFileId_NoSuffix(m, filename, uuid) == filename

\* file_id of _store_uploaded_file (lines 420-422)
UploadFileId(m, filename, uuid) ==
    IF filename \in DOMAIN m.files THEN SuffixedId(filename, uuid) ELSE filename

\* _store_uploaded_file after its await: the error raised, or the maps after the
\* registration and the metadata returned
_store_uploaded_file(m, file, uuid) ==
    LET filename == IF file.filename = NoFileName THEN UPLOADED_CSV ELSE file.filename
        file_format == IF filename.suffix = ".xlsx" THEN "xlsx" ELSE "csv"
        decoded == IF filename.suffix = ".xlsx" THEN read_excel(file.content)
                   ELSE read_csv(file.content)
        file_id == UploadFileId(m, filename, uuid)
    IN  IF decoded.raised
        THEN HTTPException(400, "Failed to parse")
        ELSE IF file_format = "xlsx"
        THEN LET parsed_sheets == _parse_excel_sheets(decoded.value)
                 after == _register_input_file(m, file_id, parsed_sheets, file_format)
             IN  IF DOMAIN parsed_sheets = {}
                 THEN HTTPException(400, "Excel file must include a Quarterly sheet")
                 ELSE [status |-> 200, maps |-> after,
                       metadata |-> InputFileMetadata(after, file_id)]
        ELSE LET p == _parse_input_dataframe(decoded.value)
                 after == _register_input_file(m, file_id, (DEFAULT_SHEET :> p), file_format)
             IN  IF p.status # 200
                 THEN p
                 ELSE [status |-> 200, maps |-> after,
                       metadata |-> InputFileMetadata(after, file_id)]

\* The lowest idle slot takes the next upload request.
FreeSlot(r) == uploads[r] = Idle /\ \A q \in Slots : q < r => uploads[q] # Idle

\* upload_input_file up to its first await: the request arrives with no file
UploadNoFiles ==
    /\ started
    /\ nMutations < MaxMutations
    /\ response' = [op |-> "upload_input_file", uploaded_files |-> <<>>,
                    status |-> 400, detail |-> "No files uploaded"]
    /\ nMutations' = nMutations + 1
    /\ UNCHANGED <<registry, started, uploads, call, datasets, NAME_LIST, threads>>

\* upload_input_file up to its first await (await file.read() of the first file)
UploadBegin(r, files) ==
    /\ started
    /\ nMutations < MaxMutations
    /\ FreeSlot(r)
    /\ files # <<>>
    /\ uploads' = [uploads EXCEPT ![r] = [pc |-> "read", files |-> files, next |-> 1,
                                          uploaded_files |-> <<>>]]
    /\ nMutations' = nMutations + 1
    /\ UNCHANGED <<registry, started, response, call, datasets, NAME_LIST, threads>>

\* From one await file.read() to the next: _store_uploaded_file raises, and the
\* request ends with its error
UploadReject(r) ==
    /\ uploads[r].pc = "read"
    /\ \E uuid \in UUIDs :
          LET frame == uploads[r]
              stored == _store_uploaded_file(Maps, frame.files[frame.next], uuid)
          IN  /\ stored.status # 200
              /\ response' = [op |-> "upload_input_file",
                              uploaded_files |-> frame.uploaded_files,
                              status |-> stored.status, detail |-> stored.detail]
    /\ uploads' = [uploads EXCEPT ![r] = Idle]
    /\ UNCHANGED <<registry, started, nMutations, call, datasets, NAME_LIST, threads>>

\* From one await file.read() to the next: the file is registered, and the loop
\* goes on to the next file or the request returns
UploadStore(r) ==
    /\ uploads[r].pc = "read"
    /\ \E uuid \in UUIDs :
          LET frame == uploads[r]
              stored == _store_uploaded_file(Maps, frame.files[frame.next], uuid)
              uploaded_files == Append(frame.uploaded_files, stored.metadata)
          IN  /\ stored.status = 200
              /\ SetMaps(stored.maps)
              /\ IF frame.next < Len(frame.files)
                 THEN /\ uploads' = [uploads EXCEPT ![r].next = frame.next + 1,
                                                    ![r].uploaded_files = uploaded_files]
                      /\ UNCHANGED response
                 ELSE /\ uploads' = [uploads EXCEPT ![r] = Idle]
                      /\ response' = [op |-> "upload_input_file",
                                      uploaded_files |-> uploaded_files,
                                      status |-> 200, detail |-> "ok"]
    /\ UNCHANGED <<started, nMutations, call, datasets, NAME_LIST, threads>>

(***************************************************************************)
(* Edit, delete, download.                                                 *)
(***************************************************************************)
\* x or default
Or(x, default) == IF x = None \/ x = Empty THEN default ELSE x

\* series_name in df.index
InIndex(series_name, df) == In(Str(series_name), df.index)

\* df.at[series_name, label] = value.  With a unique index and unique columns the
\* one cell is written; otherwise pandas falls back to df.loc[series_name, label] =
\* value, which writes every row and column carrying the labels.  Both are: every
\* cell whose row is labelled series_name and whose column is labelled label.
\* Mutant: df.at that enlarges the table with a row for the written value
at_set_Enlarges(df, series_name, label, value) ==
    [df EXCEPT !.index = Append(@, Str(series_name)),
               !.values = Append(@, [k \in 1..Len(df.columns) |->
                                        IF df.columns[k] = label THEN value ELSE NaN])]

at_set(df, series_name, label, value) ==
    [df EXCEPT !.values =
        [r \in 1..Len(df.values) |->
            [k \in 1..Len(df.columns) |->
                IF df.index[r] = Str(series_name) /\ df.columns[k] = label
                THEN value
                ELSE df.values[r][k]]]]

InputFileEditRequest(file_id, series_name, label, value, sheet_name) ==
    [file_id |-> file_id, series_name |-> series_name, label |-> label,
     value |-> value, sheet_name |-> sheet_name]

\* INPUT_FILES.get(file_id, {}).get(sheet_name) is not None
HasSheet(files, file_id, sheet_name) ==
    file_id \in DOMAIN files /\ sheet_name \in DOMAIN files[file_id]

\* Mutant: the label is checked before the series name
EditOutcome_LabelFirst(request) ==
    LET sheet_name == Or(request.sheet_name, DEFAULT_SHEET)
    IN  IF ~HasSheet(INPUT_FILES, request.file_id, sheet_name)
        THEN HTTPException(404, "Input file not found")
        ELSE IF ~(  HasSheet(INPUT_FILE_COLUMNS, request.file_id, sheet_name)
                 /\ In(request.label, INPUT_FILE_COLUMNS[request.file_id][sheet_name]))
        THEN HTTPException(400, "Unknown label")
        ELSE IF ~InIndex(request.series_name, INPUT_FILES[request.file_id][sheet_name])
        THEN HTTPException(400, "Unknown series name")
        ELSE [status |-> 200, detail |-> "ok"]

\* The status and detail edit_input_file ends with
EditOutcome(request) ==
    LET sheet_name == Or(request.sheet_name, DEFAULT_SHEET)
    IN  IF ~HasSheet(INPUT_FILES, request.file_id, sheet_name)
        THEN HTTPException(404, "Input file not found")
        ELSE IF ~InIndex(request.series_name, INPUT_FILES[request.file_id][sheet_name])
        THEN HTTPException(400, "Unknown series name")
        ELSE IF ~(  HasSheet(INPUT_FILE_COLUMNS, request.file_id, sheet_name)
                 /\ In(request.label, INPUT_FILE_COLUMNS[request.file_id][sheet_name]))
        THEN HTTPException(400, "Unknown label")
        ELSE [status |-> 200, detail |-> "ok"]

edit_input_file(request) ==
    /\ started
    /\ LET sheet_name == Or(request.sheet_name, DEFAULT_SHEET)
           outcome == EditOutcome(request)
       IN  /\ response' = [op |-> "edit_input_file", request |-> request,
                           status |-> outcome.status, detail |-> outcome.detail]
           /\ IF outcome.status = 200
              THEN /\ nMutations < MaxMutations
                   /\ nMutations' = nMutations + 1
                   /\ INPUT_FILES' =
                         [INPUT_FILES EXCEPT ![request.file_id][sheet_name] =
                             at_set(@, request.series_name, request.label,
                                    Num(request.value))]
              ELSE UNCHANGED <<INPUT_FILES, nMutations>>
    /\ UNCHANGED <<INPUT_FILE_COLUMNS, INPUT_FILE_SERIES, INPUT_FILE_FORMAT,
                   INPUT_FILE_METADATA, INPUT_FILE_SHEETS, started, uploads, call,
                   datasets, NAME_LIST, threads>>

\* Mutant: delete_input_file without its pop of INPUT_FILE_FORMAT
PopAll_KeepsFormat(m, file_id) ==
    [files |-> Pop(m.files, file_id),
     columns |-> Pop(m.columns, file_id),
     series |-> Pop(m.series, file_id),
     format |-> m.format,
     metadata |-> Pop(m.metadata, file_id),
     sheets |-> Pop(m.sheets, file_id)]

\* The six pops of delete_input_file
PopAll(m, file_id) ==
    [files |-> Pop(m.files, file_id),
     columns |-> Pop(m.columns, file_id),
     series |-> Pop(m.series, file_id),
     format |-> Pop(m.format, file_id),
     metadata |-> Pop(m.metadata, file_id),
     sheets |-> Pop(m.sheets, file_id)]

delete_input_file(file_id) ==
    /\ started
    /\ IF file_id \notin DOMAIN INPUT_FILES
       THEN /\ response' = [op |-> "delete_input_file", file_id |-> file_id,
                            status |-> 404, detail |-> "Input file not found"]
            /\ UNCHANGED <<registry, nMutations>>
       ELSE /\ nMutations < MaxMutations
            /\ nMutations' = nMutations + 1
            /\ SetMaps(PopAll(Maps, file_id))
            /\ response' = [op |-> "delete_input_file", file_id |-> file_id,
                            status |-> 200, detail |-> "deleted"]
    /\ UNCHANGED <<started, uploads, call, datasets, NAME_LIST, threads>>

\* The status, detail and body download_input_file ends with
DownloadOutcome(file_id) ==
    IF file_id \notin DOMAIN INPUT_FILES
    THEN [status |-> 404, detail |-> "Input file not found", body |-> EmptyDict]
    ELSE
    LET sheets == INPUT_FILES[file_id]
        file_format == IF file_id \in DOMAIN INPUT_FILE_FORMAT
                       THEN INPUT_FILE_FORMAT[file_id] ELSE "csv"
    IN  IF file_format = "xlsx"
        THEN [status |-> 200, detail |-> "xlsx",
              body |-> [sh \in DOMAIN sheets |-> reset_index(sheets[sh])]]
        ELSE IF DEFAULT_SHEET \notin DOMAIN sheets
        THEN [status |-> 400, detail |-> "No Quarterly data found for CSV export",
              body |-> EmptyDict]
        ELSE [status |-> 200, detail |-> "csv",
              body |-> (DEFAULT_SHEET :> reset_index(sheets[DEFAULT_SHEET]))]

download_input_file(file_id) ==
    /\ started
    /\ LET outcome == DownloadOutcome(file_id)
       IN  response' = [op |-> "download_input_file", file_id |-> file_id,
                        status |-> outcome.status, detail |-> outcome.detail,
                        body |-> outcome.body]
    /\ UNCHANGED <<registry, started, uploads, nMutations, call, datasets, NAME_LIST, threads>>

(***************************************************************************)
(* Column range helpers and plot.                                          *)
(***************************************************************************)
\* if label: (None and "" are falsy)
Given(label) == label # None /\ label # Empty

\* Mutant: the indexes are not exchanged when start lies after end
_slice_columns_NoSwap(columns, start_label, end_label) ==
    IF columns = <<>>
    THEN [status |-> 200, columns |-> columns]
    ELSE IF Given(start_label) /\ ~In(start_label, columns)
    THEN [status |-> 400, detail |-> "Unknown start label", label |-> start_label]
    ELSE IF Given(end_label) /\ ~In(end_label, columns)
    THEN [status |-> 400, detail |-> "Unknown end label", label |-> end_label]
    ELSE
    LET start_idx == IF Given(start_label) THEN IndexOf(start_label, columns) ELSE 1
        end_idx == IF Given(end_label) THEN IndexOf(end_label, columns) ELSE Len(columns)
    IN  [status |-> 200, columns |-> SubSeq(columns, start_idx, end_idx)]

\* Mutant: the labels are checked before the empty list is returned
_slice_columns_ChecksFirst(columns, start_label, end_label) ==
    IF Given(start_label) /\ ~In(start_label, columns)
    THEN [status |-> 400, detail |-> "Unknown start label", label |-> start_label]
    ELSE IF Given(end_label) /\ ~In(end_label, columns)
    THEN [status |-> 400, detail |-> "Unknown end label", label |-> end_label]
    ELSE IF columns = <<>>
    THEN [status |-> 200, columns |-> columns]
    ELSE
    LET start_idx == IF Given(start_label) THEN IndexOf(start_label, columns) ELSE 1
        end_idx == IF Given(end_label) THEN IndexOf(end_label, columns) ELSE Len(columns)
        lo == IF start_idx > end_idx THEN end_idx ELSE start_idx
        hi == IF start_idx > end_idx THEN start_idx ELSE end_idx
    IN  [status |-> 200, columns |-> SubSeq(columns, lo, hi)]

\* Mutant: the slice stops before the end index
_slice_columns_Exclusive(columns, start_label, end_label) ==
    IF columns = <<>>
    THEN [status |-> 200, columns |-> columns]
    ELSE IF Given(start_label) /\ ~In(start_label, columns)
    THEN [status |-> 400, detail |-> "Unknown start label", label |-> start_label]
    ELSE IF Given(end_label) /\ ~In(end_label, columns)
    THEN [status |-> 400, detail |-> "Unknown end label", label |-> end_label]
    ELSE
    LET start_idx == IF Given(start_label) THEN IndexOf(start_label, columns) ELSE 1
        end_idx == IF Given(end_label) THEN IndexOf(end_label, columns) ELSE Len(columns)
        lo == IF start_idx > end_idx THEN end_idx ELSE start_idx
        hi == IF start_idx > end_idx THEN start_idx ELSE end_idx
    IN  [status |-> 200, columns |-> SubSeq(columns, lo, hi - 1)]

\* _slice_columns: the sub-list returned, or the HTTPException raised
_slice_columns(columns, start_label, end_label) ==
    IF columns = <<>>
    THEN [status |-> 200, columns |-> columns]
    ELSE IF Given(start_label) /\ ~In(start_label, columns)
    THEN [status |-> 400, detail |-> "Unknown start label", label |-> start_label]
    ELSE IF Given(end_label) /\ ~In(end_label, columns)
    THEN [status |-> 400, detail |-> "Unknown end label", label |-> end_label]
    ELSE
    LET start_idx == IF Given(start_label) THEN IndexOf(start_label, columns) ELSE 1
        end_idx == IF Given(end_label) THEN IndexOf(end_label, columns) ELSE Len(columns)
        lo == IF start_idx > end_idx THEN end_idx ELSE start_idx
        hi == IF start_idx > end_idx THEN start_idx ELSE end_idx
    IN  [status |-> 200, columns |-> SubSeq(columns, lo, hi)]

RECURSIVE _merge_columns(_, _)

\* Mutant: a new label is put in front of the merged list
_merge_columns_Prepends(base, additions) ==
    IF additions = <<>> THEN base
    ELSE IF In(Head(additions), base)
    THEN _merge_columns(base, Tail(additions))
    ELSE _merge_columns(<<Head(additions)>> \o base, Tail(additions))

\* _merge_columns
_merge_columns(base, additions) ==
    IF additions = <<>> THEN base
    ELSE IF In(Head(additions), base)
    THEN _merge_columns(base, Tail(additions))
    ELSE _merge_columns(Append(base, Head(additions)), Tail(additions))

\* The rows of df labelled series_name
RowsOf(df, series_name) == {r \in 1..Len(df.index) : df.index[r] = Str(series_name)}

\* df.loc[series_name].reindex(columns) for a series_name carried by one row: the
\* row's cell under each label, missing under a label that is no column of df
ReindexedRow(df, series_name, columns) ==
    LET r == CHOOSE r \in RowsOf(df, series_name) : TRUE
    IN  [k \in 1..Len(columns) |->
            IF In(columns[k], df.columns)
            THEN df.values[r][IndexOf(columns[k], df.columns)]
            ELSE NaN]

\* _get_series_columns.  When several rows carry series_name, df.loc[series_name]
\* is a DataFrame and reindex(columns) relabels its duplicated row axis: pandas
\* raises ValueError (cannot reindex on an axis with duplicate labels).
_get_series_columns(df, series_name, columns) ==
    IF ~InIndex(series_name, df) THEN Returned(<<>>)
    ELSE IF Cardinality(RowsOf(df, series_name)) > 1 THEN Raised
    ELSE LET row == ReindexedRow(df, series_name, columns)
             Present(k) == ~isna(row[k])
         IN  Returned([i \in 1..Cardinality({k \in 1..Len(columns) : Present(k)}) |->
                          columns[CHOOSE k \in 1..Len(columns) :
                                     /\ Present(k)
                                     /\ Cardinality({j \in 1..k : Present(j)}) = i]])

\* Python's None in a list of values
NoneValue == [none |-> TRUE]

\* _get_series_values; float(value) raises ValueError on text that is no number
_get_series_values(df, series_name, columns) ==
    IF ~InIndex(series_name, df) THEN Returned([k \in 1..Len(columns) |-> NoneValue])
    ELSE IF Cardinality(RowsOf(df, series_name)) > 1 THEN Raised
    ELSE LET row == ReindexedRow(df, series_name, columns)
         IN  IF \E k \in 1..Len(columns) : "str" \in DOMAIN row[k]
             THEN Raised
             ELSE Returned([k \in 1..Len(columns) |->
                               IF isna(row[k]) THEN NoneValue ELSE row[k]])

\* metadata_df.loc[series_name], and iloc[0] of it when several rows match
FirstRow(df, series_name) ==
    CHOOSE r \in RowsOf(df, series_name) : \A q \in RowsOf(df, series_name) : r <= q

\* str(value).strip() of a cell that is not missing
StrippedText(cell) == strip(astype_str(cell))

\* _get_series_scenario: the trimmed Scenario field, or None
_get_series_scenario(metadata, file_id, series_name, sheet_name) ==
    IF ~HasSheet(metadata, file_id, sheet_name) THEN None
    ELSE
    LET metadata_df == metadata[file_id][sheet_name]
    IN  IF empty(metadata_df) \/ ~In(Scenario, metadata_df.columns) THEN None
        ELSE IF ~InIndex(series_name, metadata_df) THEN None
        ELSE LET value == metadata_df.values[FirstRow(metadata_df, series_name)]
                                            [IndexOf(Scenario, metadata_df.columns)]
             IN  IF isna(value) THEN None
                 ELSE IF StrippedText(value) = Empty THEN None
                 ELSE StrippedText(value)

\* The fields of one metadata row that are neither missing nor blank
RowMetadata(metadata_df, series_name) ==
    LET r == FirstRow(metadata_df, series_name)
        Kept == {k \in 1..Len(metadata_df.columns) :
                    /\ ~isna(metadata_df.values[r][k])
                    /\ StrippedText(metadata_df.values[r][k]) # Empty}
    IN  [column \in {metadata_df.columns[k] : k \in Kept} |->
            StrippedText(metadata_df.values[r][IndexOf(column, metadata_df.columns)])]

RECURSIVE _get_series_metadata(_, _, _, _)

\* Mutant: the fields of the later files are merged under those of the first
_get_series_metadata_Merges(metadata, series_name, file_ids, sheet_name) ==
    IF file_ids = <<>> THEN EmptyDict
    ELSE
    LET file_id == Head(file_ids)
        skip == _get_series_metadata(metadata, series_name, Tail(file_ids), sheet_name)
    IN  IF ~HasSheet(metadata, file_id, sheet_name) THEN skip
        ELSE IF empty(metadata[file_id][sheet_name]) THEN skip
        ELSE IF ~InIndex(series_name, metadata[file_id][sheet_name]) THEN skip
        ELSE RowMetadata(metadata[file_id][sheet_name], series_name) @@ skip

\* _get_series_metadata
_get_series_metadata(metadata, series_name, file_ids, sheet_name) ==
    IF file_ids = <<>> THEN EmptyDict
    ELSE
    LET file_id == Head(file_ids)
        skip == _get_series_metadata(metadata, series_name, Tail(file_ids), sheet_name)
    IN  IF ~HasSheet(metadata, file_id, sheet_name) THEN skip
        ELSE IF empty(metadata[file_id][sheet_name]) THEN skip
        ELSE IF ~InIndex(series_name, metadata[file_id][sheet_name]) THEN skip
        ELSE IF DOMAIN RowMetadata(metadata[file_id][sheet_name], series_name) = {}
        THEN skip
        ELSE RowMetadata(metadata[file_id][sheet_name], series_name)

PlotRequest(series_name, files, start_label, end_label, sheet_name) ==
    [series_name |-> series_name, files |-> files, start_label |-> start_label,
     end_label |-> end_label, sheet_name |-> sheet_name]

\* The first loop of plot_series (lines 374-381): the merged columns, unless
\* _get_series_columns raises
RECURSIVE PlotColumns(_, _, _, _, _)
PlotColumns(m, files, sheet_name, series_name, columns) ==
    IF files = <<>> THEN Returned(columns)
    ELSE
    LET file_id == Head(files)
        file_columns == IF HasSheet(m.columns, file_id, sheet_name)
                        THEN m.columns[file_id][sheet_name] ELSE <<>>
        series_columns == _get_series_columns(m.files[file_id][sheet_name], series_name,
                                              file_columns)
    IN  IF ~HasSheet(m.files, file_id, sheet_name)
        THEN PlotColumns(m, Tail(files), sheet_name, series_name, columns)
        ELSE IF series_columns.raised THEN Raised
        ELSE PlotColumns(m, Tail(files), sheet_name, series_name,
                         _merge_columns(columns, series_columns.value))

\* The second loop of plot_series (lines 389-399): the payload, or the error
RECURSIVE PlotPayload(_, _, _, _, _, _)
PlotPayload(m, files, sheet_name, series_name, columns, series_payload) ==
    IF files = <<>> THEN [status |-> 200, series |-> series_payload]
    ELSE
    LET file_id == Head(files)
        values == _get_series_values(m.files[file_id][sheet_name], series_name, columns)
        scenario == _get_series_scenario(m.metadata, file_id, series_name, sheet_name)
    IN  IF file_id \notin DOMAIN m.files
        THEN [status |-> 500, detail |-> "KeyError"]
        ELSE IF sheet_name \notin DOMAIN m.files[file_id]
        THEN HTTPException(400, "Sheet not found")
        ELSE IF values.raised
        THEN [status |-> 500, detail |-> "ValueError"]
        ELSE PlotPayload(m, Tail(files), sheet_name, series_name, columns,
                         Append(series_payload,
                                [file |-> file_id, values |-> values.value,
                                 scenario |-> scenario]))

ErrorBody(error) ==
    [status |-> error.status, detail |-> error.detail, labels |-> <<>>, series |-> <<>>,
     metadata |-> EmptyDict]

\* plot_series on the maps m: the response body, or the error the request ends with
\* (500: an exception that is no HTTPException)
PlotOutcome(m, request) ==
    LET sheet_name == Or(request.sheet_name, DEFAULT_SHEET)
        missing == SelectSeq(request.files, LAMBDA f : f \notin DOMAIN m.files)
        merged == PlotColumns(m, request.files, sheet_name, request.series_name, <<>>)
        sliced == _slice_columns(merged.value, request.start_label, request.end_label)
        payload == PlotPayload(m, request.files, sheet_name, request.series_name,
                               sliced.columns, <<>>)
    IN  IF request.files = <<>>
        THEN ErrorBody(HTTPException(400, "Select at least one file to plot"))
        ELSE IF missing # <<>>
        THEN ErrorBody(HTTPException(404, "Unknown files"))
        ELSE IF merged.raised
        THEN ErrorBody([status |-> 500, detail |-> "ValueError"])
        ELSE IF merged.value = <<>>
        THEN ErrorBody(HTTPException(400, "No columns available for the selected series"))
        ELSE IF sliced.status # 200
        THEN ErrorBody(sliced)
        ELSE IF payload.status # 200
        THEN ErrorBody(payload)
        ELSE [status |-> 200, detail |-> "ok", labels |-> sliced.columns,
              series |-> payload.series,
              metadata |-> _get_series_metadata(m.metadata, request.series_name,
                                                request.files, sheet_name)]

plot_series(request) ==
    /\ started
    /\ LET outcome == PlotOutcome(Maps, request)
       IN  response' = [op |-> "plot_series", request |-> request,
                        status |-> outcome.status, detail |-> outcome.detail,
                        labels |-> outcome.labels, series |-> outcome.series,
                        metadata |-> outcome.metadata]
    /\ UNCHANGED <<registry, started, uploads, nMutations, call, datasets, NAME_LIST, threads>>

\* The requests clients send: about each registered file and about one that is not.
RequestFileIds == DOMAIN INPUT_FILES \cup {C_CSV}
EditRequests ==
    {InputFileEditRequest(C_CSV, S1, L1, 9, None)}
    \cup {InputFileEditRequest(f, S1, L1, 9, OtherSheet) : f \in DOMAIN INPUT_FILES}
    \cup {InputFileEditRequest(f, sn, lb, 9, Empty) :
            f \in DOMAIN INPUT_FILES, sn \in {S1, S3}, lb \in {L2, Region}}

PlotRequestsOfOneFile ==
    {PlotRequest(S1, <<f>>, None, None, None) : f \in RequestFileIds}

Load == LoadDir(TestDataDirs)

\* The requests on the input-file registry, one handler run (for an upload: one
\* stretch between two awaits) per step.
Next ==
    \/ Load
    \/ UploadNoFiles
    \/ \E r \in Slots, files \in UploadRequests : UploadBegin(r, files)
    \/ \E r \in Slots : UploadReject(r)
    \/ \E r \in Slots : UploadStore(r)
    \/ \E request \in EditRequests : edit_input_file(request)
    \/ \E file_id \in RequestFileIds : delete_input_file(file_id)
    \/ \E file_id \in RequestFileIds : download_input_file(file_id)
    \/ \E request \in PlotRequestsOfOneFile : plot_series(request)

Spec == Init /\ [][Next]_vars

(***************************************************************************)
(* Plot requests over the registry a directory listing leaves.             *)
(***************************************************************************)
PlotDataDirs ==
    {<<UploadFile(A_CSV, "csvGood"), UploadFile(B_XLSX, "xlsxGood")>>,
     <<UploadFile(A_CSV, "csvGood"), UploadFile(A_U1_CSV, "csvDup"),
       UploadFile(B_XLSX, "xlsxGood")>>,
     <<UploadFile(A_CSV, "csvDup")>>}

LabelBounds == {<<None, None>>, <<L1, L3>>, <<L3, L1>>, <<L2, Empty>>, <<Region, None>>}

PlotRequests ==
    {PlotRequest(S1, <<>>, None, None, None)}
    \cup {PlotRequest(S2, <<f>>, None, None, OtherSheet) : f \in RequestFileIds}
    \cup {PlotRequest(sn, files, b[1], b[2], None) :
            sn \in {S1, S2, S3},
            files \in {<<f>> : f \in RequestFileIds}
                      \cup {<<f, g>> : f, g \in RequestFileIds},
            b \in LabelBounds}

LoadPlot == LoadDir(PlotDataDirs)

NextPlot ==
    \/ LoadPlot
    \/ \E request \in PlotRequests : plot_series(request)

SpecPlot == Init /\ [][NextPlot]_vars

(***************************************************************************)
(* plot_series and delete_input_file in two threads.  Both are "def"       *)
(* handlers, which the server runs in a thread pool: the statements of one *)
(* interleave with those of the other.  A step is one read or one write of *)
(* a registry map, with the local computation that follows it.             *)
(***************************************************************************)
PlotAnswer(request, outcome) ==
    [op |-> "plot_series", request |-> request, status |-> outcome.status,
     detail |-> outcome.detail, labels |-> outcome.labels, series |-> outcome.series,
     metadata |-> outcome.metadata]

\* Lines 367-373: the checks of the request, before the first loop
PlotBegin(request) ==
    /\ started
    /\ plotting = Idle
    /\ LET missing == SelectSeq(request.files, LAMBDA f : f \notin DOMAIN INPUT_FILES)
       IN  IF request.files = <<>>
           THEN /\ response' = PlotAnswer(request, ErrorBody(
                                   HTTPException(400, "Select at least one file to plot")))
                /\ UNCHANGED plotting
           ELSE IF missing # <<>>
           THEN /\ response' = PlotAnswer(request,
                                          ErrorBody(HTTPException(404, "Unknown files")))
                /\ UNCHANGED plotting
           ELSE /\ plotting' = [pc |-> "columns", request |-> request,
                                sheet_name |-> Or(request.sheet_name, DEFAULT_SHEET),
                                next |-> 1, columns |-> <<>>, series |-> <<>>]
                /\ UNCHANGED response
    /\ UNCHANGED <<registry, started, uploads, nMutations, call, datasets, NAME_LIST,
                   deleting>>

\* Lines 375-377: df = INPUT_FILES.get(file_id, {}).get(sheet_name) of the first loop
PlotReadTable ==
    /\ plotting.pc = "columns"
    /\ plotting.next <= Len(plotting.request.files)
    /\ LET file_id == plotting.request.files[plotting.next]
       IN  plotting' =
              IF HasSheet(INPUT_FILES, file_id, plotting.sheet_name)
              THEN [plotting EXCEPT !.pc = "merge"] @@
                   [df |-> INPUT_FILES[file_id][plotting.sheet_name]]
              ELSE [plotting EXCEPT !.next = @ + 1]
    /\ UNCHANGED <<registry, started, uploads, response, nMutations, call, datasets,
                   NAME_LIST, deleting>>

\* The frame without its local df
Forget(frame) == [k \in DOMAIN frame \ {"df"} |-> frame[k]]

\* Lines 378-380: the columns of the file, merged into the columns so far
PlotMerge ==
    /\ plotting.pc = "merge"
    /\ LET file_id == plotting.request.files[plotting.next]
           file_columns == IF HasSheet(INPUT_FILE_COLUMNS, file_id, plotting.sheet_name)
                           THEN INPUT_FILE_COLUMNS[file_id][plotting.sheet_name]
                           ELSE <<>>
           series_columns == _get_series_columns(plotting.df, plotting.request.series_name,
                                                 file_columns)
       IN  IF series_columns.raised
           THEN /\ response' = PlotAnswer(plotting.request,
                                          ErrorBody([status |-> 500, detail |-> "ValueError"]))
                /\ plotting' = Idle
           ELSE /\ plotting' = [Forget(plotting) EXCEPT
                                   !.pc = "columns",
                                   !.next = @ + 1,
                                   !.columns = _merge_columns(@, series_columns.value)]
                /\ UNCHANGED response
    /\ UNCHANGED <<registry, started, uploads, nMutations, call, datasets, NAME_LIST,
                   deleting>>

\* Lines 382-387: the first loop is over
PlotSlice ==
    /\ plotting.pc = "columns"
    /\ plotting.next > Len(plotting.request.files)
    /\ LET sliced == _slice_columns(plotting.columns, plotting.request.start_label,
                                    plotting.request.end_label)
       IN  IF plotting.columns = <<>>
           THEN /\ response' = PlotAnswer(plotting.request, ErrorBody(
                       HTTPException(400, "No columns available for the selected series")))
                /\ plotting' = Idle
           ELSE IF sliced.status # 200
           THEN /\ response' = PlotAnswer(plotting.request, ErrorBody(sliced))
                /\ plotting' = Idle
           ELSE /\ plotting' = [plotting EXCEPT !.pc = "payload", !.next = 1,
                                                !.columns = sliced.columns]
                /\ UNCHANGED response
    /\ UNCHANGED <<registry, started, uploads, nMutations, call, datasets, NAME_LIST,
                   deleting>>

\* Lines 390-395: df = INPUT_FILES[file_id].get(sheet_name) of the second loop; the
\* subscript raises KeyError when the file id is no key of INPUT_FILES
PlotReadPayload ==
    /\ plotting.pc = "payload"
    /\ plotting.next <= Len(plotting.request.files)
    /\ LET file_id == plotting.request.files[plotting.next]
       IN  IF file_id \notin DOMAIN INPUT_FILES
           THEN /\ response' = PlotAnswer(plotting.request,
                                          ErrorBody([status |-> 500, detail |-> "KeyError"]))
                /\ plotting' = Idle
           ELSE IF plotting.sheet_name \notin DOMAIN INPUT_FILES[file_id]
           THEN /\ response' = PlotAnswer(plotting.request,
                                          ErrorBody(HTTPException(400, "Sheet not found")))
                /\ plotting' = Idle
           ELSE /\ plotting' = [plotting EXCEPT !.pc = "values"] @@
                                [df |-> INPUT_FILES[file_id][plotting.sheet_name]]
                /\ UNCHANGED response
    /\ UNCHANGED <<registry, started, uploads, nMutations, call, datasets, NAME_LIST,
                   deleting>>

\* Lines 396-398: the values of the local df and the scenario, which
\* _get_series_scenario reads from INPUT_FILE_METADATA
PlotValues ==
    /\ plotting.pc = "values"
    /\ LET file_id == plotting.request.files[plotting.next]
           values == _get_series_values(plotting.df, plotting.request.series_name,
                                        plotting.columns)
           scenario == _get_series_scenario(INPUT_FILE_METADATA, file_id,
                                            plotting.request.series_name,
                                            plotting.sheet_name)
       IN  IF values.raised
           THEN /\ response' = PlotAnswer(plotting.request,
                                          ErrorBody([status |-> 500, detail |-> "ValueError"]))
                /\ plotting' = Idle
           ELSE /\ plotting' = [Forget(plotting) EXCEPT
                                   !.pc = "payload",
                                   !.next = @ + 1,
                                   !.series = Append(@, [file |-> file_id,
                                                         values |-> values.value,
                                                         scenario |-> scenario])]
                /\ UNCHANGED response
    /\ UNCHANGED <<registry, started, uploads, nMutations, call, datasets, NAME_LIST,
                   deleting>>

\* Lines 399-401: the second loop is over
PlotReturn ==
    /\ plotting.pc = "payload"
    /\ plotting.next > Len(plotting.request.files)
    /\ response' =
          PlotAnswer(plotting.request,
                     [status |-> 200, detail |-> "ok", labels |-> plotting.columns,
                      series |-> plotting.series,
                      metadata |-> _get_series_metadata(INPUT_FILE_METADATA,
                                                        plotting.request.series_name,
                                                        plotting.request.files,
                                                        plotting.sheet_name)])
    /\ plotting' = Idle
    /\ UNCHANGED <<registry, started, uploads, nMutations, call, datasets, NAME_LIST,
                   deleting>>

\* Lines 514-515 of delete_input_file: the check of the id
DeleteBegin(file_id) ==
    /\ started
    /\ deleting = Idle
    /\ IF file_id \notin DOMAIN INPUT_FILES
       THEN /\ response' = [op |-> "delete_input_file", file_id |-> file_id,
                            status |-> 404, detail |-> "Input file not found"]
            /\ UNCHANGED deleting
       ELSE /\ deleting' = [pc |-> "pop", file_id |-> file_id, next |-> 1]
            /\ UNCHANGED response
    /\ UNCHANGED <<registry, started, uploads, nMutations, call, datasets, NAME_LIST,
                   plotting>>

\* Lines 516-522: the pops, one map at a time in the order of the code, and the
\* return after the last
DeletePop ==
    /\ deleting.pc = "pop"
    /\ LET popped == PopAll(Maps, deleting.file_id)
           Turn(n, now, after) == IF deleting.next = n THEN after ELSE now
       IN  /\ INPUT_FILES' = Turn(1, INPUT_FILES, popped.files)
           /\ INPUT_FILE_COLUMNS' = Turn(2, INPUT_FILE_COLUMNS, popped.columns)
           /\ INPUT_FILE_SERIES' = Turn(3, INPUT_FILE_SERIES, popped.series)
           /\ INPUT_FILE_FORMAT' = Turn(4, INPUT_FILE_FORMAT, popped.format)
           /\ INPUT_FILE_METADATA' = Turn(5, INPUT_FILE_METADATA, popped.metadata)
           /\ INPUT_FILE_SHEETS' = Turn(6, INPUT_FILE_SHEETS, popped.sheets)
    /\ IF deleting.next = 6
       THEN /\ response' = [op |-> "delete_input_file", file_id |-> deleting.file_id,
                            status |-> 200, detail |-> "deleted"]
            /\ deleting' = Idle
       ELSE /\ deleting' = [deleting EXCEPT !.next = @ + 1]
            /\ UNCHANGED response
    /\ UNCHANGED <<started, uploads, nMutations, call, datasets, NAME_LIST, plotting>>

RaceDataDirs ==
    {<<UploadFile(A_CSV, "csvGood"), UploadFile(B_XLSX, "xlsxGood")>>}

\* The plot requests and the deletes clients send while the other runs.
RacePlotRequests ==
    {PlotRequest(S2, files, b[1], b[2], None) :
        files \in {<<>>, <<A_CSV>>, <<A_CSV, B_XLSX>>, <<B_XLSX, A_CSV>>, <<C_CSV>>},
        b \in {<<None, None>>, <<Region, None>>}}
    \cup {PlotRequest(S2, <<A_CSV>>, None, None, OtherSheet)}

LoadRace == LoadDir(RaceDataDirs)

NextRace ==
    \/ LoadRace
    \/ \E request \in RacePlotRequests : PlotBegin(request)
    \/ PlotReadTable
    \/ PlotMerge
    \/ PlotSlice
    \/ PlotReadPayload
    \/ PlotValues
    \/ PlotReturn
    \/ \E file_id \in {A_CSV, B_XLSX, C_CSV} : DeleteBegin(file_id)
    \/ DeletePop

SpecRace == Init /\ [][NextRace]_vars

(***************************************************************************)
(* Calls of _slice_columns on bounded arguments.                           *)
(***************************************************************************)
SliceLabels == {L1, L2, L3}

RECURSIVE SeqsUpTo(_, _)
SeqsUpTo(S, n) ==
    IF n = 0 THEN {<<>>}
    ELSE LET shorter == SeqsUpTo(S, n - 1)
         IN  shorter \cup {Append(q, x) : q \in shorter, x \in S}

SliceBounds == {None, Empty, L1, L2, Region}

InitSlice ==
    /\ SetMapsInit
    /\ started = FALSE
    /\ uploads = [r \in Slots |-> Idle]
    /\ response = [op |-> "none"]
    /\ nMutations = 0
    /\ DATASETS = EmptyDict
    /\ editing = Idle
    /\ NAME_LIST = None
    /\ plotting = Idle
    /\ deleting = Idle
    /\ \E columns \in SeqsUpTo(SliceLabels, MaxSliceLen), a \in SliceBounds,
          b \in SliceBounds :
          call = [fn |-> "_slice_columns", done |-> FALSE, columns |-> columns,
                  start_label |-> a, end_label |-> b]

\* _slice_columns(columns, a, b), and with the bounds exchanged
Slice ==
    /\ call.fn = "_slice_columns"
    /\ ~call.done
    /\ call' = [call EXCEPT !.done = TRUE] @@
               [result |-> _slice_columns(call.columns, call.start_label, call.end_label),
                exchanged |-> _slice_columns(call.columns, call.end_label,
                                             call.start_label)]
    /\ UNCHANGED <<registry, started, uploads, response, nMutations, datasets, NAME_LIST,
            threads>>

NextSlice == Slice

SpecSlice == InitSlice /\ [][NextSlice]_vars

(***************************************************************************)
(* Calls of _merge_columns on bounded arguments.                           *)
(***************************************************************************)
InitMerge ==
    /\ SetMapsInit
    /\ started = FALSE
    /\ uploads = [r \in Slots |-> Idle]
    /\ response = [op |-> "none"]
    /\ nMutations = 0
    /\ DATASETS = EmptyDict
    /\ editing = Idle
    /\ NAME_LIST = None
    /\ plotting = Idle
    /\ deleting = Idle
    /\ \E base \in SeqsUpTo(SliceLabels, MaxMergeLen),
          additions \in SeqsUpTo(SliceLabels, MaxMergeLen) :
          call = [fn |-> "_merge_columns", done |-> FALSE, base |-> base,
                  additions |-> additions]

\* _merge_columns(base, additions)
Merge ==
    /\ call.fn = "_merge_columns"
    /\ ~call.done
    /\ call' = [call EXCEPT !.done = TRUE] @@
               [result |-> _merge_columns(call.base, call.additions)]
    /\ UNCHANGED <<registry, started, uploads, response, nMutations, datasets, NAME_LIST,
            threads>>

NextMerge == Merge

SpecMerge == InitMerge /\ [][NextMerge]_vars

(***************************************************************************)
(* Calls of _get_series_metadata on the registry a directory listing      *)
(* leaves.                                                                 *)
(***************************************************************************)
MetadataDirs ==
    {<<UploadFile(A_CSV, "csvGood"), UploadFile(B_XLSX, "xlsxGood"),
       UploadFile(C_CSV, "csvMeta")>>,
     <<UploadFile(A_CSV, "csvDup"), UploadFile(C_CSV, "csvMeta")>>}

LoadMetadata == LoadDir(MetadataDirs)

LookupFileIds == {A_CSV, B_XLSX, C_CSV, A_U1_CSV}

\* _get_series_metadata(series_name, file_ids, sheet_name) on the current maps
LookupMetadata(series_name, file_ids, sheet_name) ==
    /\ started
    /\ call' = [fn |-> "_get_series_metadata", series_name |-> series_name,
                file_ids |-> file_ids, sheet_name |-> sheet_name,
                result |-> _get_series_metadata(INPUT_FILE_METADATA, series_name,
                                                file_ids, sheet_name)]
    /\ UNCHANGED <<registry, started, uploads, response, nMutations, datasets, NAME_LIST,
            threads>>

NextMetadata ==
    \/ LoadMetadata
    \/ \E series_name \in {S1, S2, S3},
          file_ids \in SeqsUpTo(LookupFileIds, MaxLookupFiles),
          sheet_name \in {Quarterly, OtherSheet} :
          LookupMetadata(series_name, file_ids, sheet_name)

SpecMetadata == Init /\ [][NextMetadata]_vars

(***************************************************************************)
(* The dataset registry: upload_dataset, apply_edits, export_dataset.      *)
(* apply_edits and export_dataset are plain functions, which the framework *)
(* runs on worker threads: a step of one request is at most one statement  *)
(* of its handler's body, one turn of the loop of apply_edits included.    *)
(***************************************************************************)
\* A cell of a datetime column: pd.Timestamp (date, nanoseconds in the day) or NaT
Timestamp(year, month, day, ns) == [ts |-> <<year, month, day, ns>>]
NaT == [nat |-> TRUE]

DigitValue(c) == CHOOSE n \in 0..9 : Alphabet[n + 6] = c

RECURSIVE ToNumber(_)
ToNumber(s) ==
    IF s = <<>> THEN 0 ELSE 10 * ToNumber(SubSeq(s, 1, Len(s) - 1)) + DigitValue(s[Len(s)])

DaysIn(year, month) ==
    IF month = 2
    THEN (IF year % 4 = 0 /\ (year % 100 # 0 \/ year % 400 = 0) THEN 29 ELSE 28)
    ELSE IF month \in {4, 6, 9, 11} THEN 30 ELSE 31

\* The texts the model parses as dates: YYYY-MM-DD of a day that exists.
IsIsoDate(s) ==
    /\ Len(s) = 10
    /\ \A i \in {1, 2, 3, 4, 6, 7, 9, 10} : s[i] \in Digits
    /\ s[5] = "-"
    /\ s[8] = "-"
    /\ ToNumber(SubSeq(s, 6, 7)) \in 1..12
    /\ ToNumber(SubSeq(s, 9, 10)) \in
          1..DaysIn(ToNumber(SubSeq(s, 1, 4)), ToNumber(SubSeq(s, 6, 7)))

\* pd.to_datetime(value, errors="coerce") of one cell: a number counts nanoseconds
\* from 1970-01-01, a text that is no date and a missing value become NaT
to_datetime(cell) ==
    IF "str" \in DOMAIN cell
    THEN (IF IsIsoDate(cell.str)
          THEN Timestamp(ToNumber(SubSeq(cell.str, 1, 4)), ToNumber(SubSeq(cell.str, 6, 7)),
                         ToNumber(SubSeq(cell.str, 9, 10)), 0)
          ELSE NaT)
    ELSE IF "num" \in DOMAIN cell THEN Timestamp(1970, 1, 1, cell.num)
    ELSE IF "ts" \in DOMAIN cell THEN cell
    ELSE NaT

\* df[column] of a frame: the cells of the (first) column of that label
Column(df, column) ==
    [r \in 1..Len(df.values) |-> df.values[r][IndexOf(column, df.columns)]]

\* df[column] = pd.to_datetime(df[column], errors="coerce")
CoerceDates(df, column) ==
    Frame(df.columns,
          [r \in 1..Len(df.values) |->
              [k \in 1..Len(df.columns) |->
                  IF df.columns[k] = column
                  THEN to_datetime(df.values[r][k])
                  ELSE df.values[r][k]]])

\* parsed.notna().mean() of a column, times the number of rows
Score(df, column) ==
    Cardinality({r \in 1..Len(df.values) : to_datetime(Column(df, column)[r]) # NaT})

RECURSIVE InferFrom(_, _, _, _)

\* Mutant: a column that ties with the best so far replaces it
InferFrom_TieReplaces(df, k, best_column, best_score) ==
    IF k > Len(df.columns) THEN best_column
    ELSE IF Len(df.values) > 0 /\ Score(df, df.columns[k]) >= best_score
    THEN InferFrom(df, k + 1, df.columns[k], Score(df, df.columns[k]))
    ELSE InferFrom(df, k + 1, best_column, best_score)

\* The loop of _infer_date_column from its k-th column on.  The mean over no row
\* is NaN, which is not greater than any score.
InferFrom(df, k, best_column, best_score) ==
    IF k > Len(df.columns) THEN best_column
    ELSE IF Len(df.values) > 0 /\ Score(df, df.columns[k]) > best_score
    THEN InferFrom(df, k + 1, df.columns[k], Score(df, df.columns[k]))
    ELSE InferFrom(df, k + 1, best_column, best_score)

_infer_date_column(df) == InferFrom(df, 1, df.columns[1], -1)

\* df.select_dtypes(include="number").columns.tolist()
NumericColumns(df) ==
    LET IsNumber(column) ==
           \A r \in 1..Len(df.values) :
              "num" \in DOMAIN Column(df, column)[r] \/ Column(df, column)[r] = NaN
    IN  SelectSeq(df.columns, IsNumber)

\* The tables of the calls of _infer_date_column: a column is text (dates, other
\* text, missing values) or numbers (and missing values), as pandas decodes a file.
InferLabels == <<Date, Value, Region, Scenario>>
TextCells == {Str(D1), Str(NotADate), NaN}
NumberCells == {Num(1), NaN}

ColumnsOf(n) == [1..n -> TextCells] \cup [1..n -> NumberCells]

\* The table whose k-th column is cols[k]
TableOf(cols, n) ==
    Frame(SubSeq(InferLabels, 1, Len(cols)),
          [r \in 1..n |-> [k \in 1..Len(cols) |-> cols[k][r]]])

InitInfer ==
    /\ SetMapsInit
    /\ started = FALSE
    /\ uploads = [r \in Slots |-> Idle]
    /\ response = [op |-> "none"]
    /\ nMutations = 0
    /\ DATASETS = EmptyDict
    /\ editing = Idle
    /\ NAME_LIST = None
    /\ plotting = Idle
    /\ deleting = Idle
    /\ \E n \in 0..MaxInferRows, c \in 1..MaxInferColumns :
          \E cols \in [1..c -> ColumnsOf(n)] :
             call = [fn |-> "_infer_date_column", done |-> FALSE, df |-> TableOf(cols, n)]

\* _infer_date_column(df)
Infer ==
    /\ call.fn = "_infer_date_column"
    /\ ~call.done
    /\ call' = [call EXCEPT !.done = TRUE] @@ [result |-> _infer_date_column(call.df)]
    /\ UNCHANGED <<registry, started, uploads, response, nMutations, datasets, NAME_LIST,
            threads>>

NextInfer == Infer

SpecInfer == InitInfer /\ [][NextInfer]_vars

(***************************************************************************)
(* _apply_transform.  A mean is kept as an exact fraction [frac |-> <<n,   *)
(* d>>] in lowest terms, where pandas keeps a float.                       *)
(***************************************************************************)
RECURSIVE GCD(_, _)
GCD(a, b) == IF b = 0 THEN a ELSE GCD(b, a % b)

Abs(n) == IF n < 0 THEN -n ELSE n

Frac(n, d) ==
    LET g == GCD(Abs(n), d)
    IN  [frac |-> <<n \div g, d \div g>>]

\* a < b for two timestamps
TsLess(a, b) ==
    \E i \in 1..4 : a.ts[i] < b.ts[i] /\ \A j \in 1..(i - 1) : a.ts[j] = b.ts[j]

\* One step of the sort: row put after the rows of sorted that are not later
RECURSIVE InsertByDate(_, _)
InsertByDate(row, rows) ==
    IF rows = <<>> THEN <<row>>
    ELSE IF TsLess(row.date, Head(rows).date)
    THEN <<row>> \o rows
    ELSE <<Head(rows)>> \o InsertByDate(row, Tail(rows))

\* working.sort_values(date_column); rows of one date keep their order
RECURSIVE SortByDate(_)
SortByDate(rows) ==
    IF rows = <<>> THEN <<>>
    ELSE InsertByDate(rows[Len(rows)], SortByDate(SubSeq(rows, 1, Len(rows) - 1)))

\* Lines 319-322: the projection on [date_column] + series with the dates parsed,
\* the rows without a date dropped, the rest sorted by date
Working(df, date_column, series) ==
    LET rows == [r \in 1..Len(df.values) |->
                    [date |-> to_datetime(Column(df, date_column)[r]),
                     values |-> [k \in 1..Len(series) |-> Column(df, series[k])[r]]]]
        Dated(row) == row.date # NaT
    IN  SortByDate(SelectSeq(rows, Dated))

\* The number of the calendar month ("M") or quarter ("Q") of a timestamp
BucketOf(date, transform) ==
    IF transform = "monthly_change"
    THEN date.ts[1] * 12 + (date.ts[2] - 1)
    ELSE date.ts[1] * 4 + ((date.ts[2] - 1) \div 3)

\* The label of a bucket: the last day of its month or quarter
BucketLabel(i, transform) ==
    LET year == IF transform = "monthly_change" THEN i \div 12 ELSE i \div 4
        month == IF transform = "monthly_change" THEN (i % 12) + 1 ELSE 3 * (i % 4) + 3
    IN  Timestamp(year, month, DaysIn(year, month), 0)

RECURSIVE SumOf(_)
SumOf(cells) == IF cells = <<>> THEN 0 ELSE Head(cells).num + SumOf(Tail(cells))

\* .mean() of the k-th series over the rows of bucket i: the missing values are
\* skipped, and the mean over no value is NaN
BucketMean(working, i, k, transform) ==
    LET InBucket(row) == BucketOf(row.date, transform) = i /\ row.values[k] # NaN
        rows == SelectSeq(working, InBucket)
    IN  IF rows = <<>> THEN NaN
        ELSE Frac(SumOf([r \in 1..Len(rows) |-> rows[r].values[k]]), Len(rows))

\* x - y of .diff(): NaN when either is NaN
Minus(x, y) ==
    IF x = NaN \/ y = NaN THEN NaN
    ELSE Frac(x.frac[1] * y.frac[2] - y.frac[1] * x.frac[2], x.frac[2] * y.frac[2])

\* working.set_index(date_column).resample("M" | "Q").mean(): one row for every
\* bucket from the first date's to the last date's, the buckets without a row
\* included, their means NaN
Resampled(working, transform, nseries) ==
    IF working = <<>> THEN <<>>
    ELSE
    LET lo == BucketOf(working[1].date, transform)
        hi == BucketOf(working[Len(working)].date, transform)
    IN  [n \in 1..(hi - lo + 1) |->
            [date |-> BucketLabel(lo + n - 1, transform),
             values |-> [k \in 1..nseries |->
                           BucketMean(working, lo + n - 1, k, transform)]]]

\* Mutant: the first row of diff() is the first mean itself
Changed_FirstFromZero(resampled) ==
    LET diff == [n \in 1..Len(resampled) |->
                    [date |-> resampled[n].date,
                     values |-> [k \in 1..Len(resampled[n].values) |->
                                    IF n = 1 THEN resampled[n].values[k]
                                    ELSE Minus(resampled[n].values[k],
                                               resampled[n - 1].values[k])]]]
        Complete(row) == \A k \in 1..Len(row.values) : row.values[k] # NaN
    IN  SelectSeq(diff, Complete)

\* resampled.diff().dropna(): each row minus the row before it, the first row and
\* every row with a NaN dropped
Changed(resampled) ==
    LET diff == [n \in 1..Len(resampled) |->
                    [date |-> resampled[n].date,
                     values |-> [k \in 1..Len(resampled[n].values) |->
                                    IF n = 1 THEN NaN
                                    ELSE Minus(resampled[n].values[k],
                                               resampled[n - 1].values[k])]]]
        Complete(row) == \A k \in 1..Len(row.values) : row.values[k] # NaN
    IN  SelectSeq(diff, Complete)

\* The frame of a sequence of (date, values) rows
FrameOf(date_column, series, rows) ==
    Frame(<<date_column>> \o series,
          [r \in 1..Len(rows) |-> <<rows[r].date>> \o rows[r].values])

\* _apply_transform on series columns of numbers
_apply_transform(df, date_column, series, transform) ==
    LET working == Working(df, date_column, series)
    IN  IF transform = "raw"
        THEN FrameOf(date_column, series, working)
        ELSE FrameOf(date_column, series,
                     Changed(Resampled(working, transform, Len(series))))

\* The tables of the calls of _apply_transform: a date column and a series.
D4 == <<"2", "0", "2", "4", "-", "0", "7", "-", "1", "5">>
TransformRows ==
    {<<date, value>> : date \in {Str(D1), Str(D2), Str(D3), Str(D4), Str(NotADate)},
                       value \in {Num(1), Num(4), NaN}}
TransformTables ==
    {Frame(<<Date, Value>>, rows) : rows \in SeqsUpTo(TransformRows, MaxTransformRows)}

InitTransform ==
    /\ SetMapsInit
    /\ started = FALSE
    /\ uploads = [r \in Slots |-> Idle]
    /\ response = [op |-> "none"]
    /\ nMutations = 0
    /\ DATASETS = EmptyDict
    /\ editing = Idle
    /\ NAME_LIST = None
    /\ plotting = Idle
    /\ deleting = Idle
    /\ \E df \in TransformTables, transform \in {"monthly_change", "quarterly_change"} :
          call = [fn |-> "_apply_transform", done |-> FALSE, df |-> df,
                  transform |-> transform]

\* _apply_transform(df, "date", ["value"], transform)
Transform ==
    /\ call.fn = "_apply_transform"
    /\ ~call.done
    /\ call' = [call EXCEPT !.done = TRUE] @@
               [result |-> _apply_transform(call.df, Date, <<Value>>, call.transform)]
    /\ UNCHANGED <<registry, started, uploads, response, nMutations, datasets, NAME_LIST,
            threads>>

NextTransform == Transform

SpecTransform == InitTransform /\ [][NextTransform]_vars

(***************************************************************************)
(* _parse_input_dataframe on the tables of a few columns.                  *)
(***************************************************************************)
MaxParseColumns == 3

PaddedL2 == <<" ">> \o L2 \o <<" ">>
NoPeriod == <<"2", "0", "2", "2", ".">>
ParseLabels == {Mnemonic, PaddedMnemonic, L1, PaddedL2, NoPeriod, Region}

\* The tables of no row or one row under each list of column labels
ParseTables ==
    UNION {{Frame(columns, <<>>), Frame(columns, <<[k \in 1..Len(columns) |-> Num(k)]>>)} :
              columns \in SeqsUpTo(ParseLabels, MaxParseColumns)}

InitParse ==
    /\ SetMapsInit
    /\ started = FALSE
    /\ uploads = [r \in Slots |-> Idle]
    /\ response = [op |-> "none"]
    /\ nMutations = 0
    /\ DATASETS = EmptyDict
    /\ editing = Idle
    /\ NAME_LIST = None
    /\ plotting = Idle
    /\ deleting = Idle
    /\ \E df \in ParseTables :
          call = [fn |-> "_parse_input_dataframe", done |-> FALSE, df |-> df]

Parse ==
    /\ call.fn = "_parse_input_dataframe"
    /\ ~call.done
    /\ call' = [call EXCEPT !.done = TRUE] @@ [result |-> _parse_input_dataframe(call.df)]
    /\ UNCHANGED <<registry, started, uploads, response, nMutations, datasets, NAME_LIST,
            threads>>

NextParse == Parse

SpecParse == InitParse /\ [][NextParse]_vars

Dataset(df, filename, date_column, numeric_columns) ==
    [df |-> df, filename |-> filename, date_column |-> date_column,
     numeric_columns |-> numeric_columns]

\* The dataset files clients upload.
DatasetUploads ==
    {UploadFile(A_CSV, "csvDated"), UploadFile(B_XLSX, "xlsxGood"),
     UploadFile(C_CSV, "csvNoRows"), UploadFile(NoFileName, "garbage")}

\* upload_dataset after its await file.read(); uuid4 values do not repeat.
\* (The preview and the date range of the response are not modelled.)
upload_dataset(file, uuid) ==
    /\ started
    /\ nMutations < MaxMutations
    /\ uuid \notin DOMAIN DATASETS
    /\ LET filename == IF file.filename = NoFileName
                       THEN FileName(<<"dataset">>, "")
                       ELSE file.filename
           decoded == IF filename.suffix = ".xlsx"
                      THEN read_excel_sheet0(file.content)
                      ELSE read_csv(file.content)
       IN  IF decoded.raised
           THEN /\ response' = [op |-> "upload_dataset", status |-> 400,
                                detail |-> "Failed to parse file"]
                /\ UNCHANGED DATASETS
           ELSE IF empty(decoded.value)
           THEN /\ response' = [op |-> "upload_dataset", status |-> 400,
                                detail |-> "Uploaded file contains no data"]
                /\ UNCHANGED DATASETS
           ELSE LET date_column == _infer_date_column(decoded.value)
                    df == CoerceDates(decoded.value, date_column)
                    numeric_columns == NumericColumns(df)
                IN  /\ DATASETS' = Put(DATASETS, uuid,
                                       Dataset(df, filename, date_column, numeric_columns))
                    /\ response' = [op |-> "upload_dataset", status |-> 200,
                                    dataset_id |-> uuid, columns |-> df.columns,
                                    numeric_columns |-> numeric_columns,
                                    date_column |-> date_column]
    /\ nMutations' = nMutations + 1
    /\ UNCHANGED <<NAME_LIST, registry, started, uploads, call, editing, threads>>

EditItem(date, column, value) == [date |-> date, column |-> column, value |-> value]

\* The rows of df[date_column] == target_date
Mask(df, date_column, target_date) ==
    {r \in 1..Len(df.values) : Column(df, date_column)[r] = target_date}

\* df.loc[mask, column] = value
loc_set(df, mask, column, value) ==
    Frame(df.columns,
          [r \in 1..Len(df.values) |->
              [k \in 1..Len(df.columns) |->
                  IF r \in mask /\ df.columns[k] = column
                  THEN Num(value)
                  ELSE df.values[r][k]]])

\* One turn of the loop of apply_edits: the exception it raises, or the table it leaves.
\* pd.to_datetime(edit.date) has no errors="coerce": a text that is no date raises.
EditTurn(df, date_column, edit) ==
    IF ~In(edit.column, df.columns)
    THEN [status |-> 400, detail |-> "Unknown column", label |-> edit.column]
    ELSE IF to_datetime(Str(edit.date)) = NaT
    THEN [status |-> 500, detail |-> "ValueError"]
    ELSE IF Mask(df, date_column, to_datetime(Str(edit.date))) = {}
    THEN [status |-> 400, detail |-> "No row found", label |-> edit.date]
    ELSE [status |-> 200,
          df |-> loc_set(df, Mask(df, date_column, to_datetime(Str(edit.date))),
                         edit.column, edit.value)]

\* apply_edits on an id that DATASETS.get does not find
ApplyEditsNotFound(dataset_id, request) ==
    /\ started
    /\ nMutations < MaxMutations
    /\ editing = Idle
    /\ dataset_id \notin DOMAIN DATASETS
    /\ response' = [op |-> "apply_edits", dataset_id |-> dataset_id, request |-> request,
                    status |-> 404, detail |-> "Dataset not found"]
    /\ nMutations' = nMutations + 1
    /\ UNCHANGED <<registry, started, uploads, call, datasets, NAME_LIST, threads>>

\* apply_edits up to its loop: the date column is parsed again.  The frame keeps the
\* table as the request found it (before), which the code does not keep.
ApplyEditsBegin(dataset_id, request) ==
    /\ started
    /\ nMutations < MaxMutations
    /\ editing = Idle
    /\ dataset_id \in DOMAIN DATASETS
    /\ DATASETS' = [DATASETS EXCEPT ![dataset_id].df =
                       CoerceDates(@, DATASETS[dataset_id].date_column)]
    /\ editing' = [pc |-> "loop", dataset_id |-> dataset_id, edits |-> request.edits,
                   next |-> 1, before |-> DATASETS'[dataset_id].df]
    /\ nMutations' = nMutations + 1
    /\ UNCHANGED <<NAME_LIST, registry, started, uploads, response, call, threads>>

\* One turn of the loop that writes its cells
ApplyEditsWrite ==
    /\ editing.pc = "loop"
    /\ editing.next <= Len(editing.edits)
    /\ LET dataset == DATASETS[editing.dataset_id]
           turn == EditTurn(dataset.df, dataset.date_column, editing.edits[editing.next])
       IN  /\ turn.status = 200
           /\ DATASETS' = [DATASETS EXCEPT ![editing.dataset_id].df = turn.df]
    /\ editing' = [editing EXCEPT !.next = @ + 1]
    /\ UNCHANGED <<NAME_LIST, registry, started, uploads, response, nMutations, call, threads>>

\* Mutant: an edit request that fails discards its dataset
ApplyEditsRaise_Drops ==
    /\ editing.pc = "loop"
    /\ editing.next <= Len(editing.edits)
    /\ LET dataset == DATASETS[editing.dataset_id]
           turn == EditTurn(dataset.df, dataset.date_column, editing.edits[editing.next])
       IN  /\ turn.status # 200
           /\ response' = [op |-> "apply_edits", dataset_id |-> editing.dataset_id,
                           request |-> [edits |-> editing.edits]] @@ turn
    /\ editing' = Idle
    /\ DATASETS' = Pop(DATASETS, editing.dataset_id)
    /\ UNCHANGED <<NAME_LIST, registry, started, uploads, nMutations, call, threads>>

\* One turn of the loop that raises: the request ends with the error
ApplyEditsRaise ==
    /\ editing.pc = "loop"
    /\ editing.next <= Len(editing.edits)
    /\ LET dataset == DATASETS[editing.dataset_id]
           turn == EditTurn(dataset.df, dataset.date_column, editing.edits[editing.next])
       IN  /\ turn.status # 200
           /\ response' = [op |-> "apply_edits", dataset_id |-> editing.dataset_id,
                           request |-> [edits |-> editing.edits]] @@ turn
    /\ editing' = Idle
    /\ UNCHANGED <<NAME_LIST, registry, started, uploads, nMutations, call, DATASETS, threads>>

\* The loop is over: return {"status": "ok"}
ApplyEditsReturn ==
    /\ editing.pc = "loop"
    /\ editing.next > Len(editing.edits)
    /\ response' = [op |-> "apply_edits", dataset_id |-> editing.dataset_id,
                    request |-> [edits |-> editing.edits], status |-> 200, body |-> "ok"]
    /\ editing' = Idle
    /\ UNCHANGED <<NAME_LIST, registry, started, uploads, nMutations, call, DATASETS, threads>>

\* export_dataset: the table as df.to_csv / df.to_excel reads it, taken in one step
export_dataset(dataset_id, format) ==
    /\ started
    /\ response' =
          IF dataset_id \notin DOMAIN DATASETS
          THEN [op |-> "export_dataset", dataset_id |-> dataset_id, format |-> format,
                status |-> 404, detail |-> "Dataset not found"]
          ELSE [op |-> "export_dataset", dataset_id |-> dataset_id, format |-> format,
                status |-> 200,
                filename |-> <<DATASETS[dataset_id].filename,
                               IF format = "xlsx" THEN ".xlsx" ELSE ".csv">>,
                body |-> DATASETS[dataset_id].df]
    /\ UNCHANGED <<registry, started, uploads, nMutations, call, datasets, NAME_LIST, threads>>

SeriesRequest(date_column, series, transform, start_date, end_date) ==
    [date_column |-> date_column, series |-> series, transform |-> transform,
     start_date |-> start_date, end_date |-> end_date]

\* Lines 630-638 of get_series: the rows from start_date to end_date ("if
\* request.start_date:" is Given) that have a value in every series column.  The
\* date is the first column of transformed.
Window(transformed, start_date, end_date) ==
    LET Kept(row) ==
            /\ Given(start_date) => ~TsLess(row[1], to_datetime(Str(start_date)))
            /\ Given(end_date) => ~TsLess(to_datetime(Str(end_date)), row[1])
            /\ \A k \in 2..Len(row) : row[k] # NaN
    IN  Frame(transformed.columns, SelectSeq(transformed.values, Kept))

\* get_series: reads the table of the dataset and changes nothing.  pd.to_datetime
\* of a start_date or end_date that is no date raises.  (The response carries the
\* rows; their serialisation is not modelled.)
get_series(dataset_id, request) ==
    /\ started
    /\ LET op == [op |-> "get_series", dataset_id |-> dataset_id, request |-> request]
           df == DATASETS[dataset_id].df
           Unknown(column) == ~In(column, df.columns)
           BadDate(text) == Given(text) /\ to_datetime(Str(text)) = NaT
       IN  response' =
              IF dataset_id \notin DOMAIN DATASETS
              THEN op @@ [status |-> 404, detail |-> "Dataset not found"]
              ELSE IF ~In(request.date_column, df.columns)
              THEN op @@ [status |-> 400, detail |-> "Invalid date column"]
              ELSE IF SelectSeq(request.series, Unknown) # <<>>
              THEN op @@ [status |-> 400, detail |-> "Unknown series column",
                          label |-> Head(SelectSeq(request.series, Unknown))]
              ELSE IF BadDate(request.start_date) \/ BadDate(request.end_date)
              THEN op @@ [status |-> 500, detail |-> "ValueError"]
              ELSE op @@ [status |-> 200,
                          table |-> Window(_apply_transform(df, request.date_column,
                                                            request.series,
                                                            request.transform),
                                           request.start_date, request.end_date)]
    /\ UNCHANGED <<registry, started, uploads, nMutations, call, datasets, NAME_LIST, threads>>

\* The series requests clients send.
SeriesRequests ==
    {SeriesRequest(Date, <<Value>>, "raw", None, None),
     SeriesRequest(Date, <<Value>>, "monthly_change", None, None),
     SeriesRequest(Date, <<Value>>, "raw", D2, D3),
     SeriesRequest(Date, <<Value>>, "raw", NotADate, None),
     SeriesRequest(Date, <<Region>>, "raw", None, None)}

EditRequest(edits) == [edits |-> edits]

\* The dataset edit requests clients send.
DatasetEditRequests ==
    {EditRequest(<<EditItem(D1, Value, 10), EditItem(D2, Value, 20)>>),
     EditRequest(<<EditItem(D2, Value, 10), EditItem(D1, Region, 5)>>),
     EditRequest(<<EditItem(D3, Value, 1)>>),
     EditRequest(<<EditItem(NotADate, Value, 1)>>),
     EditRequest(<<>>)}

DatasetIds == UUIDs
Formats == {"csv", "xlsx"}

LoadEmpty == LoadDir({<<>>})

\* The requests on the dataset registry, interleaved statement by statement.
NextDatasets ==
    \/ LoadEmpty
    \/ \E file \in DatasetUploads, uuid \in UUIDs : upload_dataset(file, uuid)
    \/ \E dataset_id \in DatasetIds, request \in DatasetEditRequests :
          ApplyEditsNotFound(dataset_id, request)
    \/ \E dataset_id \in DatasetIds, request \in DatasetEditRequests :
          ApplyEditsBegin(dataset_id, request)
    \/ ApplyEditsWrite
    \/ ApplyEditsRaise
    \/ ApplyEditsReturn
    \/ \E dataset_id \in DatasetIds, format \in Formats : export_dataset(dataset_id, format)
    \/ \E dataset_id \in DatasetIds, request \in SeriesRequests :
          get_series(dataset_id, request)

SpecDatasets == Init /\ [][NextDatasets]_vars

(***************************************************************************)
(* The name list: upload_name_list, get_name_list.                         *)
(***************************************************************************)
\* _parse_name_list: the error raised, or the sorted names
_parse_name_list(data, filename) ==
    IF filename.suffix # ".xlsx"
    THEN HTTPException(400, "Name list must be an Excel .xlsx file")
    ELSE IF read_excel(data).raised
    THEN HTTPException(400, "Failed to parse")
    ELSE IF Cardinality(DOMAIN read_excel(data).value) # 1
    THEN HTTPException(400, "Name list must contain exactly one sheet")
    ELSE
    LET sheets == read_excel(data).value
        sheet == sheets[CHOOSE name \in DOMAIN sheets : TRUE]
        df == Frame([i \in 1..Len(sheet.columns) |-> strip(sheet.columns[i])],
                    sheet.values)
        cells == Column(df, Mnemonic)
        names == {strip(astype_str(cells[r])) : r \in {q \in 1..Len(cells) : ~isna(cells[q])}}
    IN  IF ~In(Mnemonic, df.columns)
        THEN HTTPException(400, "Name list must include a Mnemonic column")
        ELSE [status |-> 200, names |-> sorted(names \ {Empty})]

\* The name-list files clients upload.
NameListUploads ==
    {UploadFile(B_XLSX, "xlsxNames"), UploadFile(B_XLSX, "xlsxNoQuarterly"),
     UploadFile(B_XLSX, "xlsxBlankNames"), UploadFile(B_XLSX, "xlsxGood"),
     UploadFile(B_XLSX, "xlsxBadQuarterly"), UploadFile(NoFileName, "garbage"),
     UploadFile(A_CSV, "csvGood"), UploadFile(A_CSV, "xlsxNames"),
     UploadFile(B_XLSX, "garbage"), UploadFile(NoFileName, "xlsxNames"),
     UploadFile(NoFileName, "xlsxNoQuarterly"), UploadFile(NoFileName, "xlsxBlankNames")}

\* upload_name_list after its await file.read()
upload_name_list(file) ==
    /\ started
    /\ nMutations < MaxMutations
    /\ LET filename == IF file.filename = NoFileName
                       THEN FileName(<<"name-list">>, ".xlsx")
                       ELSE file.filename
           parsed == _parse_name_list(file.content, filename)
       IN  IF parsed.status # 200
           THEN /\ response' = [op |-> "upload_name_list", file |-> file] @@ parsed
                /\ UNCHANGED NAME_LIST
           ELSE /\ NAME_LIST' = parsed.names
                /\ response' = [op |-> "upload_name_list", file |-> file, status |-> 200,
                                active |-> TRUE, names |-> parsed.names]
    /\ nMutations' = nMutations + 1
    /\ UNCHANGED <<registry, started, uploads, call, datasets, threads>>

\* get_name_list; "not NAME_LIST" holds of None and of the empty list
get_name_list ==
    /\ started
    /\ response' = IF NAME_LIST = None \/ NAME_LIST = <<>>
                   THEN [op |-> "get_name_list", status |-> 200, active |-> FALSE,
                         names |-> <<>>]
                   ELSE [op |-> "get_name_list", status |-> 200, active |-> TRUE,
                         names |-> NAME_LIST]
    /\ UNCHANGED <<NAME_LIST, registry, started, uploads, nMutations, call, datasets, threads>>

NextNames ==
    \/ Load
    \/ \E file \in NameListUploads : upload_name_list(file)
    \/ get_name_list

SpecNames == Init /\ [][NextNames]_vars

(***************************************************************************)
(* Properties of the input-file registry.                                  *)
(***************************************************************************)
\* The sheet a request names: Quarterly when it names none
SheetOf(request) ==
    IF request.sheet_name \in {None, Empty} THEN Quarterly ELSE request.sheet_name

\* The step is a run of the handler, on the request its response records.
EditStep == response'.op = "edit_input_file" /\ edit_input_file(response'.request)
DeleteStep == response'.op = "delete_input_file" /\ delete_input_file(response'.file_id)
DownloadStep ==
    response'.op = "download_input_file" /\ download_input_file(response'.file_id)
PlotStep == response'.op = "plot_series" /\ plot_series(response'.request)

\* C1: in every reachable state the six per-file maps have the same file ids, and
\* for every file id the table, time-column, series-name and metadata maps have
\* the same sheet names, which are the names of the file's sheet list.
C1_ParallelMapsAgree ==
    /\ DOMAIN INPUT_FILE_COLUMNS = DOMAIN INPUT_FILES
    /\ DOMAIN INPUT_FILE_SERIES = DOMAIN INPUT_FILES
    /\ DOMAIN INPUT_FILE_FORMAT = DOMAIN INPUT_FILES
    /\ DOMAIN INPUT_FILE_METADATA = DOMAIN INPUT_FILES
    /\ DOMAIN INPUT_FILE_SHEETS = DOMAIN INPUT_FILES
    /\ \A f \in DOMAIN INPUT_FILES :
          /\ DOMAIN INPUT_FILE_COLUMNS[f] = DOMAIN INPUT_FILES[f]
          /\ DOMAIN INPUT_FILE_SERIES[f] = DOMAIN INPUT_FILES[f]
          /\ DOMAIN INPUT_FILE_METADATA[f] = DOMAIN INPUT_FILES[f]
          /\ Range(INPUT_FILE_SHEETS[f]) = DOMAIN INPUT_FILES[f]

\* A delete has removed one file of several, after an upload or an edit.
C1_Witness ==
    /\ response.op = "delete_input_file"
    /\ response.status = 200
    /\ nMutations = MaxMutations
    /\ Cardinality(DOMAIN INPUT_FILES) >= 2

\* C2: an edit fails with 404 when the file or sheet is not registered, otherwise
\* with "Unknown series name" when the series is not in the sheet's index,
\* otherwise with "Unknown label" when the label is no time column of the sheet;
\* and a failed edit leaves every map and every cell as it was.
C2_EditFailures ==
    [][EditStep =>
            LET request == response'.request
                f == request.file_id
                sh == SheetOf(request)
                registered == f \in DOMAIN INPUT_FILES /\ sh \in DOMAIN INPUT_FILES[f]
                known == registered /\ Str(request.series_name) \in Range(INPUT_FILES[f][sh].index)
                labelled == known /\ request.label \in Range(INPUT_FILE_COLUMNS[f][sh])
            IN  /\ ~registered =>
                      response'.status = 404 /\ response'.detail = "Input file not found"
                /\ (registered /\ ~known) =>
                      response'.status = 400 /\ response'.detail = "Unknown series name"
                /\ (known /\ ~labelled) =>
                      response'.status = 400 /\ response'.detail = "Unknown label"
                /\ labelled => response'.status = 200
                /\ ~labelled => registry' = registry]_vars

\* An edit of a registered file and series has failed on its label, after the
\* registry was changed by an earlier request.
C2_Witness ==
    /\ response.op = "edit_input_file"
    /\ response.detail = "Unknown label"
    /\ response.request.label = Region
    /\ nMutations > 0

\* C3: a successful edit writes one cell, the one in the first row named
\* series_name under the label, and changes no other cell of the sheet (the other
\* rows of the same name included), no other sheet and no other file.
C3_EditWritesOneCell ==
    [][(EditStep /\ response'.status = 200) =>
            LET request == response'.request
                f == request.file_id
                sh == SheetOf(request)
                before == INPUT_FILES[f][sh]
                after == INPUT_FILES'[f][sh]
                r0 == CHOOSE r \in 1..Len(before.index) :
                         /\ before.index[r] = Str(request.series_name)
                         /\ \A q \in 1..(r - 1) : before.index[q] # Str(request.series_name)
                k0 == IndexOf(request.label, before.columns)
            IN  /\ after.index = before.index
                /\ after.columns = before.columns
                /\ after.values[r0][k0] = Num(request.value)
                /\ \A r \in 1..Len(before.values), k \in 1..Len(before.columns) :
                      <<r, k>> # <<r0, k0>> => after.values[r][k] = before.values[r][k]
                /\ \A g \in DOMAIN INPUT_FILES :
                      \A sheet \in DOMAIN INPUT_FILES[g] :
                         <<g, sheet>> # <<f, sh>> =>
                            INPUT_FILES'[g][sheet] = INPUT_FILES[g][sheet]
                /\ DOMAIN INPUT_FILES' = DOMAIN INPUT_FILES
                /\ UNCHANGED <<INPUT_FILE_COLUMNS, INPUT_FILE_SERIES, INPUT_FILE_FORMAT,
                               INPUT_FILE_METADATA, INPUT_FILE_SHEETS>>]_vars

\* The entries of every file id but f are the same before and after the step.
OthersUnchanged(f) ==
    \A g \in DOMAIN INPUT_FILES \ {f} :
        /\ g \in DOMAIN INPUT_FILES' /\ INPUT_FILES'[g] = INPUT_FILES[g]
        /\ g \in DOMAIN INPUT_FILE_COLUMNS' /\ INPUT_FILE_COLUMNS'[g] = INPUT_FILE_COLUMNS[g]
        /\ g \in DOMAIN INPUT_FILE_SERIES' /\ INPUT_FILE_SERIES'[g] = INPUT_FILE_SERIES[g]
        /\ g \in DOMAIN INPUT_FILE_FORMAT' /\ INPUT_FILE_FORMAT'[g] = INPUT_FILE_FORMAT[g]
        /\ g \in DOMAIN INPUT_FILE_METADATA'
        /\ INPUT_FILE_METADATA'[g] = INPUT_FILE_METADATA[g]
        /\ g \in DOMAIN INPUT_FILE_SHEETS' /\ INPUT_FILE_SHEETS'[g] = INPUT_FILE_SHEETS[g]

\* C4: delete of a registered id removes it from every per-file map and leaves the
\* entries of the other ids as they were; delete of an unregistered id fails with
\* 404 and changes no map; and an edit, plot, download or delete naming an id that
\* is not registered fails with 404.
C4_DeleteRemovesEverywhere ==
    [][/\ DeleteStep =>
             LET f == response'.file_id
             IN
               IF f \in DOMAIN INPUT_FILES
               THEN /\ response'.status = 200
                    /\ f \notin DOMAIN INPUT_FILES'
                    /\ f \notin DOMAIN INPUT_FILE_COLUMNS'
                    /\ f \notin DOMAIN INPUT_FILE_SERIES'
                    /\ f \notin DOMAIN INPUT_FILE_FORMAT'
                    /\ f \notin DOMAIN INPUT_FILE_METADATA'
                    /\ f \notin DOMAIN INPUT_FILE_SHEETS'
                    /\ OthersUnchanged(f)
               ELSE response'.status = 404 /\ registry' = registry
       /\ (EditStep /\ response'.request.file_id \notin DOMAIN INPUT_FILES)
             => response'.status = 404 /\ registry' = registry
       /\ (DownloadStep /\ response'.file_id \notin DOMAIN INPUT_FILES)
             => response'.status = 404 /\ registry' = registry
       /\ (PlotStep /\ \E i \in 1..Len(response'.request.files) :
                          response'.request.files[i] \notin DOMAIN INPUT_FILES)
             => response'.status = 404 /\ registry' = registry]_vars

\* A delete has removed a file and left another one registered.
C4_Witness ==
    /\ response.op = "delete_input_file"
    /\ response.status = 200
    /\ response.file_id \notin DOMAIN INPUT_FILES
    /\ INPUT_FILES # EmptyDict

\* The name _store_uploaded_file stores a file under before the suffix
StoredName(file) == IF file.filename = NoFileName THEN UPLOADED_CSV ELSE file.filename

\* The files slot r has registered once the step is taken
UploadedAfter(r) ==
    IF uploads'[r] = Idle THEN response'.uploaded_files ELSE uploads'[r].uploaded_files

\* C5: an upload whose file name is the id of a registered file leaves that file's
\* entry in every map as it was and registers the new file under another id, the
\* name with a suffix; also while another upload is in flight.
C5_UploadKeepsExistingEntry ==
    [][\A r \in Slots :
          UploadStore(r) =>
            LET name == StoredName(uploads[r].files[uploads[r].next])
                new == UploadedAfter(r)[Len(UploadedAfter(r))].id
            IN  name \in DOMAIN INPUT_FILES =>
                  /\ OthersUnchanged(new)
                  /\ new # name
                  /\ \E uuid \in UUIDs : new = SuffixedId(name, uuid)
                  /\ new \in DOMAIN INPUT_FILES'
                  /\ name \in DOMAIN INPUT_FILES']_vars

\* Two uploads of a.csv were in flight together while a.csv was registered: it
\* still holds the table loaded at start, and each upload got an id of its own.
C5_Witness ==
    /\ A_CSV \in DOMAIN INPUT_FILES
    /\ INPUT_FILES[A_CSV][Quarterly] = _parse_input_dataframe(CsvGood).parsed
    /\ SuffixedId(A_CSV, "u1") \in DOMAIN INPUT_FILES
    /\ SuffixedId(A_CSV, "u2") \in DOMAIN INPUT_FILES
    /\ uploads[2].pc = "read"

\* C6: when an upload request is rejected, none of the files it registered before
\* the failing file is registered; and no other request runs in a state in which
\* an upload request in flight has registered only some of its files.
C6_UploadAllOrNothing ==
    [][/\ \A r \in Slots :
             UploadReject(r) =>
               \A i \in 1..Len(uploads[r].uploaded_files) :
                   uploads[r].uploaded_files[i].id \notin DOMAIN INPUT_FILES'
       /\ (EditStep \/ DeleteStep \/ DownloadStep \/ PlotStep) =>
             \A r \in Slots :
                 uploads[r].pc = "read" => uploads[r].uploaded_files = <<>>]_vars

(***************************************************************************)
(* Properties of plot_series.                                              *)
(***************************************************************************)
\* The series is a row of the file's sheet with a value in some time column.
HasValue(f, sh, series_name) ==
    \E r \in 1..Len(INPUT_FILES[f][sh].index) :
        /\ INPUT_FILES[f][sh].index[r] = Str(series_name)
        /\ \E k \in 1..Len(INPUT_FILES[f][sh].columns) :
              /\ INPUT_FILES[f][sh].columns[k] \in Range(INPUT_FILE_COLUMNS[f][sh])
              /\ ~isna(INPUT_FILES[f][sh].values[r][k])

\* The request names registered files that all have the sheet, and the series
\* has a value in one of them.
PlotPrecondition(request) ==
    /\ request.files # <<>>
    /\ \A i \in 1..Len(request.files) :
          /\ request.files[i] \in DOMAIN INPUT_FILES
          /\ SheetOf(request) \in DOMAIN INPUT_FILES[request.files[i]]
    /\ \E i \in 1..Len(request.files) :
          HasValue(request.files[i], SheetOf(request), request.series_name)

\* The response has one entry per requested file, in request order, each with as
\* many values as labels, all missing for a file without the series.
PlotPostcondition(request, resp) ==
    /\ resp.status = 200
    /\ Len(resp.series) = Len(request.files)
    /\ \A i \in 1..Len(request.files) :
          /\ resp.series[i].file = request.files[i]
          /\ Len(resp.series[i].values) = Len(resp.labels)
          /\ Str(request.series_name)
                \notin Range(INPUT_FILES[request.files[i]][SheetOf(request)].index)
             => \A k \in 1..Len(resp.labels) : resp.series[i].values[k] = NoneValue

\* C8: a plot request over registered files that all have the sheet, whose series
\* has a non-missing value in at least one of them, succeeds with one entry per
\* file in request order, each value list as long as the labels, and all missing
\* for a file whose index lacks the series.
C8_PlotAcrossFiles ==
    [][(PlotStep /\ PlotPrecondition(response'.request))
          => PlotPostcondition(response'.request, response')]_vars

(***************************************************************************)
(* Properties of _slice_columns.                                           *)
(***************************************************************************)
Sliced == call.fn = "_slice_columns" /\ call.done

\* Both calls return the same list, or both raise.
SameOutcome(x, y) == x.status = y.status /\ (x.status = 200 => x.columns = y.columns)

\* C9 as stated: for every column list and every pair of bounds, given or
\* omitted, exchanging the bounds gives the same outcome.
C9_ExchangedBoundsAnyPair == Sliced => SameOutcome(call.result, call.exchanged)

\* C9 amended: when both bounds are given, or both are omitted, exchanging the
\* bounds gives the same outcome: the same list, or an error in both orders.
C9_ExchangedBounds ==
    (Sliced /\ (Given(call.start_label) <=> Given(call.end_label)))
       => SameOutcome(call.result, call.exchanged)

\* Both bounds are in the list, the start after the end, and a list of two or more
\* columns came back.
C9_Witness ==
    /\ Sliced
    /\ In(call.start_label, call.columns)
    /\ In(call.end_label, call.columns)
    /\ IndexOf(call.start_label, call.columns) > IndexOf(call.end_label, call.columns)
    /\ call.result.status = 200
    /\ Len(call.result.columns) >= 2

\* C10: on the empty column list _slice_columns returns the empty list whatever
\* the labels, and raises nothing.
C10_EmptyColumnsBypassChecks ==
    (Sliced /\ call.columns = <<>>) => call.result = [status |-> 200, columns |-> <<>>]

\* The empty list was sliced with two labels given.
C10_Witness ==
    /\ Sliced
    /\ call.columns = <<>>
    /\ call.start_label = L1
    /\ call.end_label = Region
    /\ call.result.status = 200

\* A label is missing from the list though it is given
Missing(label) == Given(label) /\ ~In(label, call.columns)

\* The position a bound stands for: of the first column carrying the label, or the
\* default of an omitted bound
PositionOf(label, default) ==
    IF Given(label) THEN IndexOf(label, call.columns) ELSE default

\* C19: on a list that is not empty, _slice_columns raises Unknown start label or
\* Unknown end label whenever a label is given (is neither None nor the empty
\* text) and is not in the list; otherwise it returns the columns from the lower
\* to the higher of the positions of the two bounds, both included, an omitted
\* start standing for the first position and an omitted end for the last; with
\* both omitted that is the whole list.
C19_SliceBetweenBounds ==
    (Sliced /\ call.columns # <<>>) =>
        IF Missing(call.start_label) \/ Missing(call.end_label)
        THEN /\ call.result.status = 400
             /\ call.result.detail \in {"Unknown start label", "Unknown end label"}
             /\ Missing(call.result.label)
        ELSE LET i == PositionOf(call.start_label, 1)
                 j == PositionOf(call.end_label, Len(call.columns))
                 between == {p \in 1..Len(call.columns) :
                                (i <= p /\ p <= j) \/ (j <= p /\ p <= i)}
                 InRange(p) == p \in between
                 kept == SelectSeq([p \in 1..Len(call.columns) |-> p], InRange)
             IN  /\ call.result.status = 200
                 /\ call.result.columns = [n \in 1..Len(kept) |-> call.columns[kept[n]]]
                 /\ (~Given(call.start_label) /\ ~Given(call.end_label))
                       => call.result.columns = call.columns

\* The start was omitted and the end given: the list came back up to the end
\* label, which is not the first column.
C19_Witness ==
    /\ Sliced
    /\ call.start_label = None
    /\ call.end_label = L2
    /\ In(L2, call.columns)
    /\ IndexOf(L2, call.columns) >= 2
    /\ IndexOf(L2, call.columns) < Len(call.columns)
    /\ call.result.status = 200
    /\ Len(call.result.columns) = IndexOf(L2, call.columns)

(***************************************************************************)
(* Properties of the dataset registry.                                     *)
(***************************************************************************)
ExportStep ==
    /\ response'.op = "export_dataset"
    /\ export_dataset(response'.dataset_id, response'.format)

\* The table when the loop of apply_edits has ended, by return or by raise,
\* with no other request writing in between.
RECURSIVE RunEdits(_, _, _)
RunEdits(df, date_column, edits) ==
    IF edits = <<>> THEN df
    ELSE LET turn == EditTurn(df, date_column, Head(edits))
         IN  IF turn.status # 200 THEN df
             ELSE RunEdits(turn.df, date_column, Tail(edits))

\* C7: an export that runs while an edit request on the same dataset id is in its
\* loop returns the table with none of the request's writes (the table the request
\* found) or with all of them (the table its loop leaves), never one in between.
C7_ExportSeesNoneOrAll ==
    [][(/\ ExportStep
        /\ response'.status = 200
        /\ editing.pc = "loop"
        /\ editing.dataset_id = response'.dataset_id)
          => response'.body \in
                {editing.before,
                 RunEdits(editing.before, DATASETS[editing.dataset_id].date_column,
                          editing.edits)}]_vars

(***************************************************************************)
(* Properties of _merge_columns.                                           *)
(***************************************************************************)
Merged == call.fn = "_merge_columns" /\ call.done

\* No label occurs twice in the list.
NoRepeats(s) == \A i, j \in 1..Len(s) : s[i] = s[j] => i = j

\* C11 as stated: for every list Y, merging Y into the empty list returns Y.
C11_MergeIntoEmptyAnyList ==
    (Merged /\ call.base = <<>>) => call.result = call.additions

\* C11 amended: for every list Y in which no label is repeated, merging Y into the
\* empty list returns exactly Y: same elements, same order, same length.
C11_MergeIntoEmpty ==
    (Merged /\ call.base = <<>> /\ NoRepeats(call.additions))
       => call.result = call.additions

\* Three distinct labels, not in sorted order, were merged into the empty list.
C11_Witness ==
    /\ Merged
    /\ call.base = <<>>
    /\ call.additions = <<L2, L1, L3>>
    /\ call.result = <<L2, L1, L3>>

(***************************************************************************)
(* Properties of _get_series_metadata.                                     *)
(***************************************************************************)
\* The columns of the series' metadata row (the first row of that name) in file f
\* whose field is neither missing nor blank after trimming.
FieldsOf(f, sheet_name, series_name) ==
    LET metadata_df == INPUT_FILE_METADATA[f][sheet_name]
        r == FirstRow(metadata_df, series_name)
    IN  {k \in 1..Len(metadata_df.columns) :
            /\ metadata_df.values[r][k] # NaN
            /\ strip(astype_str(metadata_df.values[r][k])) # <<>>}

\* File f is registered, has the sheet, has the series, and a field that counts.
Qualifies(f, sheet_name, series_name) ==
    /\ f \in DOMAIN INPUT_FILE_METADATA
    /\ sheet_name \in DOMAIN INPUT_FILE_METADATA[f]
    /\ Str(series_name) \in Range(INPUT_FILE_METADATA[f][sheet_name].index)
    /\ FieldsOf(f, sheet_name, series_name) # {}

\* The trimmed fields of the series' metadata row in file f, by column.
FieldMap(f, sheet_name, series_name) ==
    LET metadata_df == INPUT_FILE_METADATA[f][sheet_name]
        r == FirstRow(metadata_df, series_name)
        Kept == FieldsOf(f, sheet_name, series_name)
    IN  [column \in {metadata_df.columns[k] : k \in Kept} |->
            strip(astype_str(metadata_df.values[r][
                CHOOSE k \in Kept : metadata_df.columns[k] = column]))]

\* C12: _get_series_metadata returns the non-missing, non-blank trimmed fields of the
\* series' row in the first file, in the order given, that is registered, has the
\* sheet, has the series and has at least one such field; nothing of a later file
\* is merged in; it returns the empty map when no file qualifies.
C12_FirstQualifyingFile ==
    call.fn = "_get_series_metadata" =>
       LET ids == call.file_ids
           Q(i) == Qualifies(ids[i], call.sheet_name, call.series_name)
       IN  IF \A i \in 1..Len(ids) : ~Q(i)
           THEN call.result = EmptyDict
           ELSE LET first == CHOOSE i \in 1..Len(ids) : Q(i) /\ \A j \in 1..(i - 1) : ~Q(j)
                IN  call.result = FieldMap(ids[first], call.sheet_name, call.series_name)

\* s1 was looked up in a file that is not registered and then in c.csv, whose first
\* row named s1 has a missing Scenario and a padded Region.
C12_Witness ==
    /\ call.fn = "_get_series_metadata"
    /\ call.series_name = S1
    /\ call.file_ids = <<A_U1_CSV, C_CSV>>
    /\ call.sheet_name = Quarterly
    /\ A_CSV \in DOMAIN INPUT_FILE_METADATA
    /\ call.result = (Region :> EU)

(***************************************************************************)
(* Properties of _infer_date_column.                                       *)
(***************************************************************************)
\* The entries of the k-th column that pd.to_datetime parses: a text that is a
\* date, and every number (read as nanoseconds from 1970-01-01).
Parseable(df, k) ==
    {r \in 1..Len(df.values) :
        \/ "num" \in DOMAIN df.values[r][k]
        \/ ("str" \in DOMAIN df.values[r][k] /\ IsIsoDate(df.values[r][k].str))}

\* C13: date inference returns a column of the table with the greatest number (so
\* the greatest fraction) of parseable entries, the leftmost of those; and when
\* exactly one column is fully parseable, that column.
C13_InferLeftmostBest ==
    (call.fn = "_infer_date_column" /\ call.done) =>
       LET df == call.df
           n == Len(df.columns)
       IN  \E k \in 1..n :
              /\ call.result = df.columns[k]
              /\ \A j \in 1..n :
                    Cardinality(Parseable(df, j)) <= Cardinality(Parseable(df, k))
              /\ \A j \in 1..(k - 1) :
                    Cardinality(Parseable(df, j)) < Cardinality(Parseable(df, k))
              /\ \A j \in 1..n :
                    (/\ Len(df.values) > 0
                     /\ Parseable(df, j) = 1..Len(df.values)
                     /\ \A i \in 1..n \ {j} : Parseable(df, i) # 1..Len(df.values))
                       => k = j

\* The second column is the only one fully parseable, and it was returned.
C13_Witness ==
    /\ call.fn = "_infer_date_column"
    /\ call.done
    /\ Len(call.df.columns) = 2
    /\ Len(call.df.values) = 2
    /\ Cardinality(Parseable(call.df, 1)) = 1
    /\ Cardinality(Parseable(call.df, 2)) = 2
    /\ call.result = Value

(***************************************************************************)
(* Properties of _apply_transform.                                         *)
(***************************************************************************)
Transformed == call.fn = "_apply_transform" /\ call.done

\* The buckets of the rows of the input table that have a valid date.
BucketsPresent ==
    {BucketOf(to_datetime(call.df.values[r][1]), call.transform) :
        r \in {q \in 1..Len(call.df.values) : to_datetime(call.df.values[q][1]) # NaT}}

\* The buckets of the rows returned.
BucketsReturned ==
    {BucketOf(call.result.values[r][1], call.transform) :
        r \in 1..Len(call.result.values)}

\* C14 as stated: for every input table, monthly_change returns at most (months
\* with a validly dated row) - 1 rows, none of them in the earliest such month.
C14_MonthlyRowsAnyTable ==
    (Transformed /\ call.transform = "monthly_change") =>
       /\ Len(call.result.values) <= Cardinality(BucketsPresent) - 1
       /\ \A b \in BucketsReturned : \E p \in BucketsPresent : p < b

\* C14 amended: for every input table with at least one validly dated row,
\* monthly_change returns at most (months with a validly dated row) - 1 rows, none
\* of them in the earliest such month; for a table without one it returns no row.
C14_MonthlyRows ==
    (Transformed /\ call.transform = "monthly_change") =>
       IF BucketsPresent = {}
       THEN call.result.values = <<>>
       ELSE /\ Len(call.result.values) <= Cardinality(BucketsPresent) - 1
            /\ \A b \in BucketsReturned : \E p \in BucketsPresent : p < b

\* Rows of three consecutive months gave the two rows of February and March.
C14_Witness ==
    /\ Transformed
    /\ call.transform = "monthly_change"
    /\ Cardinality(BucketsPresent) = 3
    /\ Len(call.result.values) = 2

\* The buckets that hold an observation: a validly dated row with a value.
BucketsObserved ==
    {BucketOf(to_datetime(call.df.values[r][1]), call.transform) :
        r \in {q \in 1..Len(call.df.values) :
                  /\ to_datetime(call.df.values[q][1]) # NaT
                  /\ call.df.values[q][2] # NaN}}

\* The mean of the observations of bucket b.
ObservedMean(b) ==
    LET rows == {r \in 1..Len(call.df.values) :
                    /\ to_datetime(call.df.values[r][1]) # NaT
                    /\ BucketOf(to_datetime(call.df.values[r][1]), call.transform) = b
                    /\ call.df.values[r][2] # NaN}
        total[S \in SUBSET rows] ==
            IF S = {} THEN 0
            ELSE LET r == CHOOSE x \in S : TRUE
                 IN  call.df.values[r][2].num + total[S \ {r}]
    IN  Frac(total[rows], Cardinality(rows))

\* C20: in both change modes the output has one row for every bucket with
\* observations but the earliest, in order, and the row holds the bucket's mean
\* minus the mean of the nearest earlier bucket with observations; buckets without
\* observations, also those lying between two such buckets, make no row and break
\* no difference.
C20_DifferenceOfPresentBuckets ==
    Transformed =>
       LET later == {b \in BucketsObserved : \E p \in BucketsObserved : p < b}
           Nth(n) == CHOOSE b \in later : Cardinality({x \in later : x <= b}) = n
           Before(b) == CHOOSE p \in BucketsObserved :
                           p < b /\ \A x \in BucketsObserved : x < b => x <= p
       IN  call.result.values =
              [n \in 1..Cardinality(later) |->
                  <<BucketLabel(Nth(n), call.transform),
                    Minus(ObservedMean(Nth(n)), ObservedMean(Before(Nth(n))))>>]

(***************************************************************************)
(* Properties of the name list.                                            *)
(***************************************************************************)
UploadNamesStep ==
    /\ response'.op = "upload_name_list"
    /\ upload_name_list(response'.file)

GetNamesStep == response'.op = "get_name_list" /\ get_name_list

\* C15: a successful name-list upload makes the names it returns the current list,
\* whatever the list before; a rejected one leaves the current list as it was; and
\* once an upload has succeeded, get_name_list returns the pair (active, names)
\* that the last successful upload returned.
C15_NameListReplacedAndRead ==
    [][/\ (UploadNamesStep /\ response'.status = 200)
             => (response'.active /\ NAME_LIST' = response'.names)
       /\ (UploadNamesStep /\ response'.status # 200) => NAME_LIST' = NAME_LIST
       /\ (GetNamesStep /\ NAME_LIST # None)
             => (response'.active /\ response'.names = NAME_LIST)]_vars

(***************************************************************************)
(* Properties of a registered file between its registration and its        *)
(* deletion.                                                               *)
(***************************************************************************)
\* The step registers file id f: an upload slot stores a file under that id
Registers(f) ==
    \E r \in Slots :
        /\ uploads[r].pc = "read"
        /\ Len(UploadedAfter(r)) = Len(uploads[r].uploaded_files) + 1
        /\ UploadedAfter(r)[Len(UploadedAfter(r))].id = f

\* What ingestion derives from the table of a sheet
DerivedTimeColumns(df) == SelectSeq(df.columns, TIME_COLUMN_PATTERN)
DerivedSeries(df) == [r \in 1..Len(df.index) |-> astype_str(df.index[r])]

SameShape(df, after) ==
    /\ after.index = df.index
    /\ after.columns = df.columns
    /\ Len(after.values) = Len(df.values)
    /\ \A r \in 1..Len(df.values) : Len(after.values[r]) = Len(df.values[r])

SheetsAsDerived ==
    \A f \in DOMAIN INPUT_FILES : \A sh \in DOMAIN INPUT_FILES[f] :
        /\ INPUT_FILE_COLUMNS[f][sh] = DerivedTimeColumns(INPUT_FILES[f][sh])
        /\ INPUT_FILE_SERIES[f][sh] = DerivedSeries(INPUT_FILES[f][sh])
        /\ \A k \in 1..Len(INPUT_FILE_COLUMNS[f][sh]) :
              In(INPUT_FILE_COLUMNS[f][sh][k], INPUT_FILES[f][sh].columns)

SheetsKept ==
    \A f \in DOMAIN INPUT_FILES \cap DOMAIN INPUT_FILES' :
        ~Registers(f) =>
            /\ DOMAIN INPUT_FILES'[f] = DOMAIN INPUT_FILES[f]
            /\ INPUT_FILE_COLUMNS'[f] = INPUT_FILE_COLUMNS[f]
            /\ INPUT_FILE_SERIES'[f] = INPUT_FILE_SERIES[f]
            /\ \A sh \in DOMAIN INPUT_FILES[f] :
                  SameShape(INPUT_FILES[f][sh], INPUT_FILES'[f][sh])

\* C16: while a file id stays registered, and whatever edits (successful or
\* rejected) happen, each sheet's time-column list and series-name list are the
\* ones derived from its table at ingestion, every time column is a column of the
\* table, and the table keeps its rows and its columns: no step other than a
\* registration under the id or its deletion changes any of them.
C16_SheetsKeepListsAndShape == []SheetsAsDerived /\ [][SheetsKept]_vars

\* An edit has written a cell of a registered file, whose lists and table still
\* agree, after an earlier request changed the registry.
C16_Witness ==
    /\ response.op = "edit_input_file"
    /\ response.status = 200
    /\ nMutations = MaxMutations
    /\ response.request.file_id \in DOMAIN INPUT_FILES
    /\ \E sh \in DOMAIN INPUT_FILES[response.request.file_id] :
          LET df == INPUT_FILES[response.request.file_id][sh]
          IN  \E r \in 1..Len(df.values) : \E k \in 1..Len(df.columns) :
                 df.values[r][k] = Num(response.request.value)

(***************************************************************************)
(* Properties of the dataset registry.                                     *)
(***************************************************************************)
DateColumnInTable ==
    \A dataset_id \in DOMAIN DATASETS :
        In(DATASETS[dataset_id].date_column, DATASETS[dataset_id].df.columns)

UploadDatasetStep == response'.op = "upload_dataset" /\ response' # response

DatasetsStay ==
    /\ DOMAIN DATASETS \subseteq DOMAIN DATASETS'
    /\ (UploadDatasetStep /\ response'.status = 200)
          => response'.dataset_id \in DOMAIN DATASETS'

\* C17: whatever uploads, edits, series queries and exports have run, every
\* dataset of the registry has its date_column among the columns of its table, and
\* no step removes a dataset id from the registry: the id an upload returns is
\* registered and stays so.
C17_DatasetsKeepDateColumnAndId == []DateColumnInTable /\ [][DatasetsStay]_vars

\* A series query has returned rows of a dataset after two uploads or edit
\* requests changed the registry: the dataset is still registered, its date column
\* among its columns.
C17_Witness ==
    /\ response.op = "get_series"
    /\ response.status = 200
    /\ nMutations = MaxMutations
    /\ response.dataset_id \in DOMAIN DATASETS
    /\ Len(response.table.values) > 0
    /\ In(DATASETS[response.dataset_id].date_column,
          DATASETS[response.dataset_id].df.columns)

(***************************************************************************)
(* Properties of _parse_input_dataframe.                                   *)
(***************************************************************************)
\* The call is over, on a table that has a row and a column
Parsed == call.fn = "_parse_input_dataframe" /\ call.done /\ ~empty(call.df)

Trimmed == [i \in 1..Len(call.df.columns) |-> strip(call.df.columns[i])]

OtherColumns ==
    LET NotMnemonic(column) == column # Mnemonic
    IN  SelectSeq(Trimmed, NotMnemonic)

\* The list holds columns of the table in the table's left-to-right order
InTableOrder(list) ==
    LET Listed(column) == In(column, list)
    IN  list = SelectSeq(Trimmed, Listed)

\* C18: on a table that is not empty the parser fails with "must include a Mnemonic
\* column" when no column is named Mnemonic after trimming, otherwise with "must
\* include timestamp columns" when no other column matches dddd.d+; otherwise it
\* returns a time-column list and a metadata-column list that are disjoint, do not
\* contain Mnemonic, together contain every other column, and are each in the
\* table's left-to-right order.
C18_ParserClassifiesColumns ==
    Parsed =>
        IF ~In(Mnemonic, Trimmed)
        THEN call.result = HTTPException(400, "Input file must include a Mnemonic column")
        ELSE IF \A k \in 1..Len(OtherColumns) : ~TIME_COLUMN_PATTERN(OtherColumns[k])
        THEN call.result =
                HTTPException(400, "Input file must include timestamp columns like 2022.1")
        ELSE /\ call.result.status = 200
             /\ LET time == call.result.time_columns
                    meta == call.result.metadata_df.columns
                IN  /\ \A i \in 1..Len(time) : ~In(time[i], meta)
                    /\ ~In(Mnemonic, time)
                    /\ ~In(Mnemonic, meta)
                    /\ \A k \in 1..Len(OtherColumns) :
                          In(OtherColumns[k], time) \/ In(OtherColumns[k], meta)
                    /\ InTableOrder(time)
                    /\ InTableOrder(meta)

(***************************************************************************)
(* Properties of the stored series table and its export.                   *)
(***************************************************************************)
StoredColumnsAreTimeColumns ==
    \A f \in DOMAIN INPUT_FILES : \A sh \in DOMAIN INPUT_FILES[f] :
        INPUT_FILES[f][sh].columns = INPUT_FILE_COLUMNS[f][sh]

ExportHasTimeColumnsOnly ==
    (DownloadStep /\ response'.status = 200) =>
        \A sh \in DOMAIN response'.body :
            response'.body[sh].columns =
                <<Mnemonic>> \o INPUT_FILE_COLUMNS[response'.file_id][sh]

\* C21: for every registered file and sheet the columns of the stored table are
\* exactly the sheet's time columns, the metadata columns being held by the
\* metadata table only, and a download of the file holds the Mnemonic column
\* followed by the time columns and no other column.
C21_StoredTableHoldsTimeColumnsOnly ==
    []StoredColumnsAreTimeColumns /\ [][ExportHasTimeColumnsOnly]_vars

(***************************************************************************)
(* Properties of a rejected dataset edit request.                          *)
(***************************************************************************)
\* The step ends an edit request with one of the rejections of apply_edits
EditNotFoundStep ==
    /\ response' # response
    /\ response'.op = "apply_edits"
    /\ response'.status = 404

EditRejectedStep ==
    /\ editing.pc = "loop"
    /\ editing' = Idle
    /\ response'.op = "apply_edits"
    /\ response'.status = 400
    /\ response'.detail \in {"Unknown column", "No row found"}

\* C22: an edit request rejected for an unknown dataset id, for an edit naming an
\* unknown column or for an edit whose date matches no row leaves every cell of
\* the dataset's table as the request found it, also when the rejected edit is
\* not the first of the request's list.
C22_RejectedEditKeepsTable ==
    [][/\ EditNotFoundStep => DATASETS' = DATASETS
       /\ EditRejectedStep => DATASETS'[editing.dataset_id].df = editing.before]_vars


(***************************************************************************)
(* Properties of plot_series beside delete_input_file (SpecRace).          *)
(***************************************************************************)
\* A step with which a plot request that passed its checks ends
PlotEnds == plotting # Idle /\ plotting' = Idle

\* The body of a finished plot: one entry for each file of the request, in order
CompleteResult(body) ==
    /\ body.status = 200
    /\ Len(body.series) = Len(body.request.files)
    /\ \A i \in 1..Len(body.series) : body.series[i].file = body.request.files[i]

\* An HTTPException of the handler: bad request or not found
StructuredError(body) == body.status \in {400, 404}

\* C23: a plot request that runs beside a delete of one of its files ends with a
\* complete result or with a 400 or 404 error of the handler, never with the
\* KeyError of a lookup of the file that vanished after the check of the ids.
C23_PlotEndsWithResultOrError ==
    [][PlotEnds => CompleteResult(response') \/ StructuredError(response')]_vars
=============================================================================
